---- MODULE Spec2Model ----
(***************************************************************************)
(* A model of the tasks service's real-time core of go-task-tracker:       *)
(* the fixed-window RateLimiter and the WSHub connection registry with     *)
(* its WebSocket sessions (tasks-service/handlers/handlers.go).            *)
(***************************************************************************)
EXTENDS Integers, FiniteSets, Sequences, TLC

(***************************************************************************)
(* Bounds of the model.                                                    *)
(***************************************************************************)
MaxLimit == 2
MaxCallers == 2
MaxConns == 2

Keys == {"ip1", "ip2"}
Callers == 1 .. MaxCallers
Limits == 0 .. MaxLimit
NoHolder == 0
CleanupProc == MaxCallers + 1
Boards == {"b1", "b2"}
Conns == 1 .. MaxConns
NoConn == 0
MainLimit == 5
MaxReqs == 2
Reqs == 1 .. MaxReqs
TaskIds == {"t1", "t2"}
Senders == {1, 2}
MaxLogins == 2
Logins == 1 .. MaxLogins

VARIABLES
    limit,        \* RateLimiter.limit
    attempts,     \* RateLimiter.attempts: a map, DOMAIN attempts \subseteq Keys
    rlMutex,      \* RateLimiter.mutex: NoHolder or the goroutine holding it
    rlPc,         \* per caller of Allow: "idle", "read", "decide"
    rlKey,        \* per caller: the ip argument of the call in progress / last call
    rlCount,      \* per caller: the local `count` read at line 57
    rlExists,     \* per caller: the local `exists` read at line 57
    rlRes,        \* per caller: what the last Allow returned: "true", "false" ("none" before)
    cleanPc,      \* the cleanup goroutine: "sleep", "reset"
    granted,      \* history: per key, the Allow calls that returned true since the last reset
    deniedNow,    \* history: keys denied since the last reset
    deniedBefore, \* history: keys denied before the last reset and not asked since
    regained,     \* history: keys whose first Allow after such a reset returned true
    connections,  \* WSHub.connections: a map, DOMAIN connections \subseteq Boards, to sets of Conns
    hubMutex,     \* WSHub.mutex: NoHolder or Broadcaster, a BroadcastTaskUpdate call
    connState,    \* per connection: "new" (not upgraded yet), "open", "closed" (Close was called)
    peerGone,     \* per connection: the peer is gone or the link broken, so reads and writes fail
    wsPc,         \* per connection: where its HandleWebSocket goroutine stands ("allow", "registering", "unregistering": inside the call, the mutex held)
    wsBoard,      \* per connection: the boardID upgradeAndAuthorize returned ("none" before)
    kaPc,         \* per connection: where its keep-alive goroutine stands
    bPc,          \* the BroadcastTaskUpdate call holding the mutex: "idle" (none), "lookup", "range", "write"
    bBoard,       \* that call's boardID argument ("none" when idle)
    bTodo,        \* that call: the entries of conns the range loop has not visited yet
    bCur,         \* that call: the conn of the loop iteration in progress
    bSubs,        \* history: that call, the subscriber set found at line 92
    bTried,       \* history: that call, the conns WriteMessage was called on
    bFailed,      \* history: that call, the conns whose WriteMessage returned an error
    bDelivered,   \* history: that call, the conns whose WriteMessage returned nil
    pruned        \* history: the conns some BroadcastTaskUpdate removed and closed

rlVars == <<limit, attempts, rlMutex, rlPc, rlKey, rlCount, rlExists, rlRes,
            cleanPc, granted, deniedNow, deniedBefore, regained>>

bcVars == <<bPc, bBoard, bTodo, bCur, bSubs, bTried, bFailed, bDelivered, pruned>>

hubVars == <<connections, hubMutex, connState, peerGone, wsPc, wsBoard, kaPc,
             bPc, bBoard, bTodo, bCur, bSubs, bTried, bFailed, bDelivered, pruned>>

VARIABLES
    wsAllow,      \* per request: what h.RateLimiter.Allow returned at line 118 ("none" before)
    wsOrigin,     \* per request: what checkOrigin answered inside Upgrade ("unchecked" before)
    wsParam,      \* per request: the board_id query parameter read at line 143 ("none" before)
    wsUid,        \* per request: the local uid read from the context at line 149 ("none" before)
    wsStore,      \* history: per request, BoardRepo.GetByID was called (line 150)
    wsStatus      \* per request: how HandleWebSocket answered or went on ("none" before)

wsVars == <<wsAllow, wsOrigin, wsParam, wsUid, wsStore, wsStatus>>

VARIABLES
    oPc,          \* per sender: its BroadcastTaskUpdate call: "idle" (not called yet), "lock", "range", "done" (returned)
    oBoard,       \* per sender: the boardID argument of its call ("none" before)
    oTodo,        \* per sender: the entries of conns its range loop has not visited yet
    oAfter,       \* history: per sender, the senders whose call had returned when its call was made
    oLog          \* history: per connection, the senders whose message it received, in order of arrival

ordVars == <<oPc, oBoard, oTodo, oAfter, oLog>>

VARIABLES
    tasks,        \* the tasks table: a map from the ids of its rows to [board, title, status]
    usedIds,      \* the task ids uuid.New() has returned so far
    hPc,          \* per HTTP request: "new", "handler", "create", "update", "delete", "broadcast", "writing" (inside BroadcastTaskUpdate), "done"
    hRoute,       \* per request: "mux" (through AuthMiddleware) or "direct" (the handler is called with a context)
    hTok,         \* per request: the Authorization header's token ("absent" without the header)
    hCtxKey,      \* per request: the type of the key "user_id" is stored under in its context ("none": not stored)
    hCtxVal,      \* per request: the value stored under that key
    hNext,        \* history: per request, the task handler was called
    hUid,         \* per request: the userID the handler read from the context ("none" before)
    hOp,          \* per request: "create", "get", "update", "delete" ("none" before)
    hBoard,       \* history: per request, the board of the task it is about, when nothing but the caller can make the handler refuse it ("none" else)
    hTask,        \* per request: the task the handler built or loaded
    hCommit,      \* history: per request, TaskRepo.Create/Update/Delete returned nil
    hSent,        \* history: per request, the arguments of its BroadcastTaskUpdate calls, in order
    hStatus,      \* per request: the status code of the response ("none" before)
    hBadStatus    \* history: per request, updateTaskByID decoded a body whose status normalizeStatus does not know

httpVars == <<tasks, usedIds, hPc, hRoute, hTok, hCtxKey, hCtxVal, hNext, hUid, hOp,
              hBoard, hTask, hCommit, hSent, hStatus, hBadStatus>>

\* The request handlers' part of httpVars: all of it but the table.
handlerVars == <<usedIds, hPc, hRoute, hTok, hCtxKey, hCtxVal, hNext, hUid, hOp,
                 hBoard, hTask, hCommit, hSent, hStatus, hBadStatus>>

VARIABLES
    repoOp,       \* the last TaskRepository method called directly: "Create", "GetByID", "Update", "Delete" ("none" before)
    repoId,       \* the id of the task that call was about ("none" before)
    repoErr,      \* that call returned a non-nil error
    repoBefore    \* history: the tasks table when that call was made

repoVars == <<repoOp, repoId, repoErr, repoBefore>>

VARIABLES
    lPc,          \* per login request: "new", "lock", "allow", "body", "store", "done"
    lAddr,        \* per login request: request.RemoteAddr, <<ip, port>> (<<>> before)
    lKey,         \* per login request: the key Allow is called with (<<>> before)
    lOrd,         \* history: per login request, the key's count when its Allow returned true (0: it did not)
    lStore,       \* history: per login request, UserRepo.GetByEmail was called
    lStatus       \* per login request: the status code of the response ("none" before)

loginVars == <<lPc, lAddr, lKey, lOrd, lStore, lStatus>>

VARIABLES
    atStore       \* history: the mutexes ("rl", "hub") some goroutine held while it called a repository

lockVars == <<atStore>>

\* What the step-by-step HandleWebSocket, a sender and a task request leave alone.
wsFrame == <<ordVars, httpVars, repoVars, loginVars, lockVars>>
ordFrame == <<wsVars, httpVars, repoVars, loginVars, lockVars>>
httpFrame == <<rlVars, hubVars, wsVars, ordVars, repoVars, loginVars, lockVars>>
repoFrame == <<rlVars, hubVars, wsVars, ordVars, handlerVars, loginVars, lockVars>>
loginFrame == <<hubVars, wsVars, ordVars, httpVars, repoVars, lockVars>>

\* What a goroutine followed from mutex to mutex leaves alone.
rlRest == <<limit, rlPc, rlKey, rlCount, rlExists, rlRes, cleanPc,
            granted, deniedNow, deniedBefore, regained>>
reqRest == <<tasks, usedIds, hRoute, hTok, hCtxKey, hCtxVal, hNext, hUid, hOp,
             hTask, hCommit, hSent, hStatus, hBadStatus>>
lockFrame == <<rlRest, kaPc, bcVars, wsVars, ordVars, repoVars, loginVars>>

extVars == <<wsVars, ordVars, httpVars, repoVars, loginVars, lockVars>>

vars == <<rlVars, hubVars, extVars>>

(***************************************************************************)
(* RateLimiter (handlers.go:36-76).                                        *)
(***************************************************************************)
EmptyAttempts == [k \in {} |-> 0]

\* NewRateLimiter: an empty map, the given limit, the cleanup goroutine started.
NewRateLimiter(l) ==
    /\ limit = l
    /\ attempts = EmptyAttempts
    /\ rlMutex = NoHolder
    /\ cleanPc = "sleep"

\* sync.Mutex: Lock succeeds only when nobody holds the mutex.
MutexFree(m) == m = NoHolder

\* line 57: count, exists := rl.attempts[ip]  (the zero value for an absent key)
LookupCount(att, ip) == IF ip \in DOMAIN att THEN att[ip] ELSE 0
LookupExists(att, ip) == ip \in DOMAIN att

\* line 62: if count >= rl.limit
AllowDeniedOffByOne(count, lim) == count > lim
AllowDenied(count, lim) == count >= lim

\* lines 58-66: the value Allow returns, from the locals read at line 57
AllowResult(count, exists, lim) ==
    IF ~exists THEN TRUE
    ELSE IF AllowDenied(count, lim) THEN FALSE
    ELSE TRUE

\* lines 59 and 65: the map after the call
AllowAttempts(att, ip, count, exists, lim) ==
    IF ~exists
    THEN [k \in DOMAIN att \cup {ip} |-> IF k = ip THEN 1 ELSE att[k]]
    ELSE IF AllowDenied(count, lim) THEN att
    ELSE [att EXCEPT ![ip] = att[ip] + 1]

\* line 73: rl.attempts = make(map[string]int)
ResetAttemptsShadowed(att) == att
ResetAttempts(att) == EmptyAttempts

\* Allow, line 54: rl.mutex.Lock() by caller p, called with key ip
AllowLock(p, ip) ==
    /\ rlPc[p] = "idle"
    /\ MutexFree(rlMutex)
    /\ rlMutex' = p
    /\ rlPc' = [rlPc EXCEPT ![p] = "read"]
    /\ rlKey' = [rlKey EXCEPT ![p] = ip]
    /\ UNCHANGED <<limit, attempts, rlCount, rlExists, rlRes, cleanPc,
                   granted, deniedNow, deniedBefore, regained, hubVars, extVars>>

\* Allow, line 57: the map lookup
AllowRead(p) ==
    /\ rlPc[p] = "read"
    /\ rlCount' = [rlCount EXCEPT ![p] = LookupCount(attempts, rlKey[p])]
    /\ rlExists' = [rlExists EXCEPT ![p] = LookupExists(attempts, rlKey[p])]
    /\ rlPc' = [rlPc EXCEPT ![p] = "decide"]
    /\ UNCHANGED <<limit, attempts, rlMutex, rlKey, rlRes, cleanPc,
                   granted, deniedNow, deniedBefore, regained, hubVars, extVars>>

\* Allow, lines 58-67: the update, the return and the deferred Unlock
AllowDecide(p) ==
    /\ rlPc[p] = "decide"
    /\ LET ip == rlKey[p]
           res == AllowResult(rlCount[p], rlExists[p], limit)
       IN /\ attempts' = AllowAttempts(attempts, ip, rlCount[p], rlExists[p], limit)
          /\ rlRes' = [rlRes EXCEPT ![p] = IF res THEN "true" ELSE "false"]
          /\ granted' = IF res THEN [granted EXCEPT ![ip] = @ + 1] ELSE granted
          /\ deniedNow' = IF res THEN deniedNow ELSE deniedNow \cup {ip}
          /\ deniedBefore' = deniedBefore \ {ip}
          /\ regained' = IF res /\ ip \in deniedBefore THEN regained \cup {ip} ELSE regained
    /\ rlMutex' = IF rlMutex = p THEN NoHolder ELSE rlMutex
    /\ rlPc' = [rlPc EXCEPT ![p] = "idle"]
    /\ rlCount' = [rlCount EXCEPT ![p] = 0]
    /\ rlExists' = [rlExists EXCEPT ![p] = FALSE]
    /\ UNCHANGED <<limit, rlKey, cleanPc, hubVars, extVars>>

\* cleanup, lines 71-72: the sleep ends and the goroutine takes the mutex
CleanupLock ==
    /\ cleanPc = "sleep"
    /\ MutexFree(rlMutex)
    /\ rlMutex' = CleanupProc
    /\ cleanPc' = "reset"
    /\ UNCHANGED <<limit, attempts, rlPc, rlKey, rlCount, rlExists, rlRes,
                   granted, deniedNow, deniedBefore, regained, hubVars, extVars>>

\* cleanup, lines 73-74: the map is replaced and the mutex released
CleanupReset ==
    /\ cleanPc = "reset"
    /\ attempts' = ResetAttempts(attempts)
    /\ rlMutex' = IF rlMutex = CleanupProc THEN NoHolder ELSE rlMutex
    /\ cleanPc' = "sleep"
    /\ granted' = [k \in Keys |-> 0]
    /\ deniedBefore' = deniedBefore \cup deniedNow
    /\ deniedNow' = {}
    /\ UNCHANGED <<limit, rlPc, rlKey, rlCount, rlExists, rlRes, regained, hubVars, extVars>>

(***************************************************************************)
(* WSHub and the WebSocket sessions (handlers.go:27-34, 87-223).           *)
(***************************************************************************)
EmptyConnections == [b \in {} |-> {}]

\* No BroadcastTaskUpdate call is between its Lock and its Unlock.
NoBroadcast ==
    /\ bPc = "idle"
    /\ bBoard = "none"
    /\ bTodo = {}
    /\ bCur = NoConn
    /\ bSubs = {}
    /\ bTried = {}
    /\ bFailed = {}
    /\ bDelivered = {}

\* NewWSHub: an empty map; no request has arrived, no broadcast was issued.
InitHub ==
    /\ connections = EmptyConnections
    /\ hubMutex = NoHolder
    /\ connState = [c \in Conns |-> "new"]
    /\ peerGone = [c \in Conns |-> FALSE]
    /\ wsPc = [c \in Conns |-> "new"]
    /\ wsBoard = [c \in Conns |-> "none"]
    /\ kaPc = [c \in Conns |-> "off"]
    /\ NoBroadcast
    /\ pruned = {}

\* A write (WriteMessage, WriteControl) or a read returns an error on a
\* connection that was closed or whose peer is gone.
Usable(c) == connState[c] = "open" /\ ~peerGone[c]

\* register, lines 178-181: the set is created when absent, conn is added
registerEveryBoard(conns, b, c) ==
    [x \in Boards |-> (IF x \in DOMAIN conns THEN conns[x] ELSE {}) \cup {c}]
registerReplacesSet(conns, b, c) ==
    [x \in DOMAIN conns \cup {b} |-> IF x = b THEN {c} ELSE conns[x]]
register(conns, b, c) ==
    [x \in DOMAIN conns \cup {b} |->
        IF x = b
        THEN (IF b \in DOMAIN conns THEN conns[b] ELSE {}) \cup {c}
        ELSE conns[x]]

\* unregister, line 187: delete(hub.connections[boardID], conn); delete on
\* the nil map of a missing board does nothing
unregisterKeepsConn(conns, b, c) == conns
unregisterDropsBoard(conns, b, c) ==
    [x \in DOMAIN conns \ {b} |-> conns[x]]
unregister(conns, b, c) ==
    IF b \in DOMAIN conns THEN [conns EXCEPT ![b] = @ \ {c}] ELSE conns

\* line 111: delete(conns, conn) on the board's inner map
PruneFailedKeepsConn(conns, b, c) == conns
PruneFailed(conns, b, c) == [conns EXCEPT ![b] = @ \ {c}]

\* lines 92-95: a boardID without an entry leaves the map as it is
RegistryAfterMissCreatesSet(conns, b) ==
    [x \in DOMAIN conns \cup {b} |-> IF x = b THEN {} ELSE conns[x]]
RegistryAfterMiss(conns, b) == conns

\* lines 92 and 108: the conns the loop ranges over
BroadcastTargetsAllBoards(conns, b) == UNION {conns[x] : x \in DOMAIN conns}
BroadcastTargets(conns, b) == conns[b]

\* lines 109-113: after a failed write the loop goes on with the entries left
TodoAfterFailureBreaks(todo) == {}
TodoAfterFailureRevisits(todo) == todo \cup {bCur}
TodoAfterFailure(todo) == todo

\* Connections are numbered in the order their requests arrive.
NextConn(c) == \A d \in Conns : d < c => wsPc[d] # "new"

\* The mutex holder's name for a BroadcastTaskUpdate call.
Broadcaster == 1

\* The peer of an open connection goes away (disconnect, broken link, no pong).
PeerFail(c) ==
    /\ connState[c] = "open"
    /\ ~peerGone[c]
    /\ peerGone' = [peerGone EXCEPT ![c] = TRUE]
    /\ UNCHANGED <<rlVars, extVars, connections, hubMutex, connState, wsPc, wsBoard, kaPc,
                   bcVars>>

\* HandleWebSocket, lines 117-127, the request is let through: Allow returned
\* true and upgradeAndAuthorize returned the new conn c and the boardID b.
WSUpgraded(c, b) ==
    /\ wsPc[c] = "new"
    /\ NextConn(c)
    /\ connState' = [connState EXCEPT ![c] = "open"]
    /\ wsBoard' = [wsBoard EXCEPT ![c] = b]
    /\ wsPc' = [wsPc EXCEPT ![c] = "register"]
    /\ UNCHANGED <<rlVars, extVars, connections, hubMutex, peerGone, kaPc,
                   bcVars>>

\* HandleWebSocket, lines 118-127, the request is turned away (rate limit,
\* failed upgrade, bad board id, not the owner): a conn that was upgraded is
\* closed (lines 145, 152) and the handler returns without touching the hub.
WSRejected(c) ==
    /\ wsPc[c] = "new"
    /\ NextConn(c)
    /\ connState' = [connState EXCEPT ![c] = "closed"]
    /\ wsPc' = [wsPc EXCEPT ![c] = "done"]
    /\ UNCHANGED <<rlVars, extVars, connections, hubMutex, peerGone, wsBoard, kaPc,
                   bcVars>>

\* HandleWebSocket, line 129: h.WSHub.register(boardID, conn), lines 175-182.
\* Lock, the update and the deferred Unlock are one step: nothing blocks between.
WSRegister(c) ==
    /\ wsPc[c] = "register"
    /\ MutexFree(hubMutex)
    /\ connections' = register(connections, wsBoard[c], c)
    /\ wsPc' = [wsPc EXCEPT ![c] = "keepalive"]
    /\ UNCHANGED <<rlVars, extVars, hubMutex, connState, peerGone, wsBoard, kaPc,
                   bcVars>>

\* HandleWebSocket, line 130: setupKeepAlive starts the ping goroutine
\* (lines 190-211) and the handler enters readLoop (line 132).
WSSetupKeepAlive(c) ==
    /\ wsPc[c] = "keepalive"
    /\ kaPc' = [kaPc EXCEPT ![c] = "tick"]
    /\ wsPc' = [wsPc EXCEPT ![c] = "read"]
    /\ UNCHANGED <<rlVars, extVars, connections, hubMutex, connState, peerGone, wsBoard,
                   bcVars>>

\* readLoop, lines 215-218: ReadMessage returns an error (a read that
\* succeeds is dropped and changes nothing) and h.WSHub.unregister(boardID,
\* conn), lines 184-188, gets the mutex. A connection that fails stays
\* failed, so the wait for the mutex is part of the step's guard.
ReadFail(c) ==
    /\ wsPc[c] = "read"
    /\ ~Usable(c)
    /\ MutexFree(hubMutex)
    /\ connections' = unregister(connections, wsBoard[c], c)
    /\ wsPc' = [wsPc EXCEPT ![c] = "close"]
    /\ UNCHANGED <<rlVars, extVars, hubMutex, connState, peerGone, wsBoard, kaPc,
                   bcVars>>

\* readLoop, lines 219-220: conn.Close() and the loop ends
ReadClose(c) ==
    /\ wsPc[c] = "close"
    /\ connState' = [connState EXCEPT ![c] = "closed"]
    /\ wsPc' = [wsPc EXCEPT ![c] = "done"]
    /\ UNCHANGED <<rlVars, extVars, connections, hubMutex, peerGone, wsBoard, kaPc,
                   bcVars>>

\* keep-alive, lines 201-205: the ticker fires, WriteControl returns an
\* error (a ping that is written changes nothing) and h.WSHub.unregister(
\* boardID, conn) gets the mutex.
PingFail(c) ==
    /\ kaPc[c] = "tick"
    /\ ~Usable(c)
    /\ MutexFree(hubMutex)
    /\ connections' = unregister(connections, wsBoard[c], c)
    /\ kaPc' = [kaPc EXCEPT ![c] = "close"]
    /\ UNCHANGED <<rlVars, extVars, hubMutex, connState, peerGone, wsPc, wsBoard,
                   bcVars>>

\* keep-alive, lines 206-207: conn.Close() and the goroutine returns
PingClose(c) ==
    /\ kaPc[c] = "close"
    /\ connState' = [connState EXCEPT ![c] = "closed"]
    /\ kaPc' = [kaPc EXCEPT ![c] = "done"]
    /\ UNCHANGED <<rlVars, extVars, connections, hubMutex, peerGone, wsPc, wsBoard,
                   bcVars>>

\* BroadcastTaskUpdate(b, task), lines 89-90: Lock. The mutex admits one call
\* at a time, so one record holds the call between its Lock and its Unlock.
BroadcastLock(b) ==
    /\ bPc = "idle"
    /\ MutexFree(hubMutex)
    /\ hubMutex' = Broadcaster
    /\ bBoard' = b
    /\ bPc' = "lookup"
    /\ UNCHANGED <<rlVars, extVars, connections, connState, peerGone, wsPc, wsBoard, kaPc,
                   bTodo, bCur, bSubs, bTried, bFailed, bDelivered, pruned>>

\* lines 92-95: no entry for boardID, return (the deferred Unlock runs)
BroadcastNoEntry ==
    /\ bPc = "lookup"
    /\ bBoard \notin DOMAIN connections
    /\ connections' = RegistryAfterMiss(connections, bBoard)
    /\ hubMutex' = NoHolder
    /\ bPc' = "idle"
    /\ bBoard' = "none"
    /\ UNCHANGED <<rlVars, extVars, connState, peerGone, wsPc, wsBoard, kaPc,
                   bTodo, bCur, bSubs, bTried, bFailed, bDelivered, pruned>>

\* lines 92-108: the entry is found, the message is marshalled (a map of a
\* uuid and strings: json.Marshal cannot fail) and the range over conns starts
BroadcastRange ==
    /\ bPc = "lookup"
    /\ bBoard \in DOMAIN connections
    /\ bTodo' = BroadcastTargets(connections, bBoard)
    /\ bSubs' = connections[bBoard]
    /\ bPc' = "range"
    /\ UNCHANGED <<rlVars, extVars, connections, hubMutex, connState, peerGone, wsPc, wsBoard,
                   kaPc, bBoard, bCur, bTried, bFailed, bDelivered, pruned>>

\* lines 108-109: the next entry of the range, conn.WriteMessage is called
BroadcastWrite ==
    /\ bPc = "range"
    /\ \E c \in bTodo :
          /\ bCur' = c
          /\ bTodo' = bTodo \ {c}
          /\ bTried' = bTried \cup {c}
    /\ bPc' = "write"
    /\ UNCHANGED <<rlVars, extVars, connections, hubMutex, connState, peerGone, wsPc, wsBoard,
                   kaPc, bBoard, bSubs, bFailed, bDelivered, pruned>>

\* line 109: WriteMessage returns nil, the peer has the message
BroadcastWriteOk ==
    /\ bPc = "write"
    /\ Usable(bCur)
    /\ bDelivered' = bDelivered \cup {bCur}
    /\ bCur' = NoConn
    /\ bPc' = "range"
    /\ UNCHANGED <<rlVars, extVars, connections, hubMutex, connState, peerGone, wsPc, wsBoard,
                   kaPc, bBoard, bTodo, bSubs, bTried, bFailed, pruned>>

\* lines 109-113: WriteMessage returns an error: delete(conns, conn), conn.Close()
BroadcastWriteFail ==
    /\ bPc = "write"
    /\ ~Usable(bCur)
    /\ connections' = PruneFailed(connections, bBoard, bCur)
    /\ connState' = [connState EXCEPT ![bCur] = "closed"]
    /\ bFailed' = bFailed \cup {bCur}
    /\ pruned' = pruned \cup {bCur}
    /\ bTodo' = TodoAfterFailure(bTodo)
    /\ bCur' = NoConn
    /\ bPc' = "range"
    /\ UNCHANGED <<rlVars, extVars, hubMutex, peerGone, wsPc, wsBoard, kaPc,
                   bBoard, bSubs, bTried, bDelivered>>

\* lines 114-115: the range is over, the deferred Unlock runs
BroadcastEnd ==
    /\ bPc = "range"
    /\ bTodo = {}
    /\ hubMutex' = NoHolder
    /\ bPc' = "idle"
    /\ bBoard' = "none"
    /\ bTodo' = {}
    /\ bCur' = NoConn
    /\ bSubs' = {}
    /\ bTried' = {}
    /\ bFailed' = {}
    /\ bDelivered' = {}
    /\ UNCHANGED <<rlVars, extVars, connections, connState, peerGone, wsPc, wsBoard, kaPc,
                   pruned>>

\* No upgrade request has arrived.
InitWSRequests ==
    /\ wsAllow = [c \in Conns |-> "none"]
    /\ wsOrigin = [c \in Conns |-> "unchecked"]
    /\ wsParam = [c \in Conns |-> "none"]
    /\ wsUid = [c \in Conns |-> "none"]
    /\ wsStore = [c \in Conns |-> FALSE]
    /\ wsStatus = [c \in Conns |-> "none"]

\* No sender has called BroadcastTaskUpdate, nothing was received.
InitSenders ==
    /\ oPc = [t \in Senders |-> "idle"]
    /\ oBoard = [t \in Senders |-> "none"]
    /\ oTodo = [t \in Senders |-> {}]
    /\ oAfter = [t \in Senders |-> {}]
    /\ oLog = [c \in Conns |-> <<>>]

\* A row of the tasks table, a task in a handler; NoTask where there is none.
Task(id, b, title, status) == [id |-> id, board |-> b, title |-> title, status |-> status]
NoTask == Task("none", "none", "", "")

EmptyTasks == [id \in {} |-> NoTask]

\* No HTTP request has arrived; the tasks table is empty.
InitRequests ==
    /\ tasks = EmptyTasks
    /\ usedIds = {}
    /\ hPc = [r \in Reqs |-> "new"]
    /\ hRoute = [r \in Reqs |-> "none"]
    /\ hTok = [r \in Reqs |-> "absent"]
    /\ hCtxKey = [r \in Reqs |-> "none"]
    /\ hCtxVal = [r \in Reqs |-> ""]
    /\ hNext = [r \in Reqs |-> FALSE]
    /\ hUid = [r \in Reqs |-> "none"]
    /\ hOp = [r \in Reqs |-> "none"]
    /\ hBoard = [r \in Reqs |-> "none"]
    /\ hTask = [r \in Reqs |-> NoTask]
    /\ hCommit = [r \in Reqs |-> FALSE]
    /\ hSent = [r \in Reqs |-> <<>>]
    /\ hStatus = [r \in Reqs |-> "none"]
    /\ hBadStatus = [r \in Reqs |-> FALSE]

\* No TaskRepository method was called directly.
InitRepo ==
    /\ repoOp = "none"
    /\ repoId = "none"
    /\ repoErr = FALSE
    /\ repoBefore = EmptyTasks

\* No login request has arrived.
InitLogins ==
    /\ lPc = [l \in Logins |-> "new"]
    /\ lAddr = [l \in Logins |-> <<>>]
    /\ lKey = [l \in Logins |-> <<>>]
    /\ lOrd = [l \in Logins |-> 0]
    /\ lStore = [l \in Logins |-> FALSE]
    /\ lStatus = [l \in Logins |-> "none"]

InitExt ==
    /\ InitWSRequests /\ InitSenders /\ InitRequests /\ InitRepo /\ InitLogins
    /\ atStore = {}

\* No caller of Allow has started, no history yet.
InitCallers ==
    /\ rlPc = [p \in Callers |-> "idle"]
    /\ rlKey = [p \in Callers |-> "ip1"]
    /\ rlCount = [p \in Callers |-> 0]
    /\ rlExists = [p \in Callers |-> FALSE]
    /\ rlRes = [p \in Callers |-> "none"]
    /\ granted = [k \in Keys |-> 0]
    /\ deniedNow = {}
    /\ deniedBefore = {}
    /\ regained = {}

\* A RateLimiter of any limit, as the tests construct it; the hub is not used.
InitRL ==
    /\ \E l \in Limits : NewRateLimiter(l)
    /\ InitCallers
    /\ InitHub
    /\ InitExt

NextRL ==
    \/ \E p \in Callers, ip \in Keys : AllowLock(p, ip)
    \/ \E p \in Callers : AllowRead(p)
    \/ \E p \in Callers : AllowDecide(p)
    \/ CleanupLock
    \/ CleanupReset

SpecRL == InitRL /\ [][NextRL]_vars

\* The tasks service as main builds it: NewRateLimiter(5, time.Second), NewWSHub().
Init ==
    /\ NewRateLimiter(MainLimit)
    /\ InitCallers
    /\ InitHub
    /\ InitExt

Next ==
    \/ \E c \in Conns : PeerFail(c)
    \/ \E c \in Conns, b \in Boards : WSUpgraded(c, b)
    \/ \E c \in Conns : WSRejected(c)
    \/ \E c \in Conns : WSRegister(c)
    \/ \E c \in Conns : WSSetupKeepAlive(c)
    \/ \E c \in Conns : ReadFail(c)
    \/ \E c \in Conns : ReadClose(c)
    \/ \E c \in Conns : PingFail(c)
    \/ \E c \in Conns : PingClose(c)
    \/ \E b \in Boards : BroadcastLock(b)
    \/ BroadcastNoEntry
    \/ BroadcastRange
    \/ BroadcastWrite
    \/ BroadcastWriteOk
    \/ BroadcastWriteFail
    \/ BroadcastEnd

Spec == Init /\ [][Next]_vars

\* The goroutines of the tasks service under a fair scheduler. A goroutine
\* that can take its next step takes it. One that waits in Lock gets the
\* mutex if it is free again and again: after 1ms of waiting sync.Mutex hands
\* the mutex over to the waiter (strong fairness). Reads and writes on a
\* connection that was closed or whose peer is gone return their error.
\* Nothing makes a request arrive, a peer go away or a Broadcast be called.
\* WriteMessage on a connection whose peer is there is not in the list: the
\* code sets no write deadline (SetWriteDeadline is never called), so the
\* call at line 109 returns when the peer takes the bytes, if it does.
SchedFair ==
    /\ \A c \in Conns :
          /\ SF_vars(WSRegister(c))
          /\ WF_vars(WSSetupKeepAlive(c))
          /\ SF_vars(ReadFail(c))
          /\ WF_vars(ReadClose(c))
          /\ SF_vars(PingFail(c))
          /\ WF_vars(PingClose(c))
    /\ WF_vars(BroadcastNoEntry)
    /\ WF_vars(BroadcastRange)
    /\ WF_vars(BroadcastWrite)
    /\ WF_vars(BroadcastWriteFail)
    /\ WF_vars(BroadcastEnd)

SpecLive == Init /\ [][Next]_vars /\ SchedFair

\* The same with peers that take what is written to them: every WriteMessage
\* returns.
WritesReturn == WF_vars(BroadcastWriteOk)

SpecLiveW == Init /\ [][Next]_vars /\ SchedFair /\ WritesReturn

(***************************************************************************)
(* HandleWebSocket step by step (handlers.go:116-157): the rate limiter,   *)
(* the upgrade, the board id, the board's owner. The values of a request   *)
(* are drawn at the line that reads them.                                  *)
(***************************************************************************)
Users == {"u1", "u2"}

\* The caller identity a handler finds in the request context: a user, or
\* the empty string when the context holds no string under "user_id".
Uids == Users \cup {""}

\* board_id values: the boards of the store, the uuid of no board ("b9"),
\* a string uuid.Parse rejects ("bad").
BoardParams == Boards \cup {"b9", "bad"}

\* line 143: uuid.Parse(r.URL.Query().Get("board_id")) returns no error
WellFormed(param) == param # "bad"

\* The boards table: OwnerID of each board.
Owner(b) == IF b = "b1" THEN "u1" ELSE "u2"

\* line 150: BoardRepo.GetByID returns an error for an id without a row, and
\* when the query itself fails
LookupFails(param, dbErr) == dbErr \/ param \notin Boards

\* line 151: if err != nil || board.OwnerID.String() != uid
AuthorizeFailsOwnerIgnored(param, dbErr, uid) == LookupFails(param, dbErr)
AuthorizeFails(param, dbErr, uid) ==
    LookupFails(param, dbErr) \/ Owner(param) # uid

\* lines 118-121: where the handler goes after Allow
AfterAllowIgnoresLimiter(res) == "upgrade"
AfterAllow(res) == IF res THEN "upgrade" ELSE "done"

\* lines 145 and 152: conn.Close() on the failure paths
ClosedOnFailureLeaksConn(state) == state
ClosedOnFailure(state) == "closed"

\* HandleWebSocket, lines 117-121: clientIP(r) and h.RateLimiter.Allow(ip),
\* lines 53-67 under the limiter's mutex; "Too many WebSocket connection
\* attempts" (429) and return when it answers false.
WSAllow(c, ip) ==
    /\ wsPc[c] = "new"
    /\ NextConn(c)
    /\ MutexFree(rlMutex)
    /\ LET count == LookupCount(attempts, ip)
           exists == LookupExists(attempts, ip)
           res == AllowResult(count, exists, limit)
       IN /\ attempts' = AllowAttempts(attempts, ip, count, exists, limit)
          /\ wsAllow' = [wsAllow EXCEPT ![c] = IF res THEN "true" ELSE "false"]
          /\ wsPc' = [wsPc EXCEPT ![c] = AfterAllow(res)]
          /\ wsStatus' = [wsStatus EXCEPT ![c] = IF res THEN @ ELSE "429"]
    /\ UNCHANGED <<limit, rlMutex, rlPc, rlKey, rlCount, rlExists, rlRes, cleanPc,
                   granted, deniedNow, deniedBefore, regained,
                   connections, hubMutex, connState, peerGone, wsBoard, kaPc, bcVars, wsFrame,
                   wsOrigin, wsParam, wsUid, wsStore>>

\* upgradeAndAuthorize, lines 136-141: upgrader.Upgrade fails, because
\* checkOrigin (lines 159-173) refuses the Origin or the handshake is not a
\* WebSocket one; no conn exists, the handler logs and returns (lines 124-127).
WSUpgradeFail(c, originOk) ==
    /\ wsPc[c] = "upgrade"
    /\ wsOrigin' = [wsOrigin EXCEPT ![c] = IF originOk THEN "ok" ELSE "refused"]
    /\ wsStatus' = [wsStatus EXCEPT ![c] = "upgrade failed"]
    /\ wsPc' = [wsPc EXCEPT ![c] = "done"]
    /\ UNCHANGED <<rlVars, connections, hubMutex, connState, peerGone, wsBoard, kaPc,
                   bcVars, wsFrame, wsAllow, wsParam, wsUid, wsStore>>

\* lines 136-137: checkOrigin accepts and Upgrade returns the conn
WSUpgradeOk(c) ==
    /\ wsPc[c] = "upgrade"
    /\ wsOrigin' = [wsOrigin EXCEPT ![c] = "ok"]
    /\ connState' = [connState EXCEPT ![c] = "open"]
    /\ wsPc' = [wsPc EXCEPT ![c] = "parse"]
    /\ UNCHANGED <<rlVars, connections, hubMutex, peerGone, wsBoard, kaPc,
                   bcVars, wsFrame, wsAllow, wsParam, wsUid, wsStore, wsStatus>>

\* lines 143-147: uuid.Parse of the board_id parameter; on an error
\* conn.Close() and "invalid board id"
WSParse(c, param) ==
    /\ wsPc[c] = "parse"
    /\ wsParam' = [wsParam EXCEPT ![c] = param]
    /\ IF WellFormed(param)
       THEN /\ wsPc' = [wsPc EXCEPT ![c] = "authorize"]
            /\ UNCHANGED <<connState, wsStatus>>
       ELSE /\ connState' = [connState EXCEPT ![c] = ClosedOnFailure(@)]
            /\ wsStatus' = [wsStatus EXCEPT ![c] = "invalid board id"]
            /\ wsPc' = [wsPc EXCEPT ![c] = "done"]
    /\ UNCHANGED <<rlVars, connections, hubMutex, peerGone, wsBoard, kaPc,
                   bcVars, wsFrame, wsAllow, wsOrigin, wsUid, wsStore>>

\* lines 149-156: uid from the context, BoardRepo.GetByID, the owner test; on
\* a failure conn.Close() and "forbidden", else conn and boardID are returned
WSAuthorize(c, uid, dbErr) ==
    /\ wsPc[c] = "authorize"
    /\ wsUid' = [wsUid EXCEPT ![c] = uid]
    /\ wsStore' = [wsStore EXCEPT ![c] = TRUE]
    /\ IF AuthorizeFails(wsParam[c], dbErr, uid)
       THEN /\ connState' = [connState EXCEPT ![c] = ClosedOnFailure(@)]
            /\ wsStatus' = [wsStatus EXCEPT ![c] = "forbidden"]
            /\ wsPc' = [wsPc EXCEPT ![c] = "done"]
            /\ UNCHANGED wsBoard
       ELSE /\ wsBoard' = [wsBoard EXCEPT ![c] = wsParam[c]]
            /\ wsStatus' = [wsStatus EXCEPT ![c] = "authorized"]
            /\ wsPc' = [wsPc EXCEPT ![c] = "register"]
            /\ UNCHANGED connState
    /\ UNCHANGED <<rlVars, connections, hubMutex, peerGone, kaPc,
                   bcVars, wsFrame, wsAllow, wsOrigin, wsParam>>

\* The tasks service with a limiter of any limit, so that a few requests
\* reach it.
InitWS ==
    /\ \E l \in Limits : NewRateLimiter(l)
    /\ InitCallers
    /\ InitHub
    /\ InitExt

NextWS ==
    \/ \E c \in Conns, ip \in Keys : WSAllow(c, ip)
    \/ \E c \in Conns, originOk \in BOOLEAN : WSUpgradeFail(c, originOk)
    \/ \E c \in Conns : WSUpgradeOk(c)
    \/ \E c \in Conns, param \in BoardParams : WSParse(c, param)
    \/ \E c \in Conns, uid \in Uids, dbErr \in BOOLEAN : WSAuthorize(c, uid, dbErr)
    \/ \E c \in Conns : WSRegister(c)
    \/ \E c \in Conns : WSSetupKeepAlive(c)
    \/ CleanupLock
    \/ CleanupReset

SpecWS == InitWS /\ [][NextWS]_vars

(***************************************************************************)
(* BroadcastTaskUpdate called by concurrent request handlers, each call    *)
(* with its own message (handlers.go:88-115).                              *)
(***************************************************************************)
\* Senders: the two request handlers whose calls are compared.
\* The mutex holder's name for sender t's call.
SenderHolder(t) == Broadcaster + t

\* Senders are numbered in the order they call.
NextSender(t) == \A u \in Senders : u < t => oPc[u] # "idle"

\* line 108: the range visits each entry once
RangeRestRevisits(todo, c) == todo
RangeRest(todo, c) == todo \ {c}

\* A request handler calls BroadcastTaskUpdate(b, task): it will block in
\* Lock (line 89) until the mutex is free.
OrdInvoke(t, b) ==
    /\ oPc[t] = "idle"
    /\ NextSender(t)
    /\ oPc' = [oPc EXCEPT ![t] = "lock"]
    /\ oBoard' = [oBoard EXCEPT ![t] = b]
    /\ oAfter' = [oAfter EXCEPT ![t] = {u \in Senders : oPc[u] = "done"}]
    /\ UNCHANGED <<rlVars, hubVars, ordFrame, oTodo, oLog>>

\* lines 89-95: Lock succeeds; without an entry for the board the call
\* returns (the deferred Unlock runs), else the range over conns starts
OrdLock(t) ==
    /\ oPc[t] = "lock"
    /\ MutexFree(hubMutex)
    /\ bPc = "idle"
    /\ IF oBoard[t] \in DOMAIN connections
       THEN /\ hubMutex' = SenderHolder(t)
            /\ oTodo' = [oTodo EXCEPT ![t] = BroadcastTargets(connections, oBoard[t])]
            /\ oPc' = [oPc EXCEPT ![t] = "range"]
       ELSE /\ oPc' = [oPc EXCEPT ![t] = "done"]
            /\ UNCHANGED <<hubMutex, oTodo>>
    /\ UNCHANGED <<rlVars, connections, connState, peerGone, wsPc, wsBoard, kaPc,
                   bcVars, ordFrame, oBoard, oAfter, oLog>>

\* lines 108-113: one iteration: WriteMessage on the next entry; the peer has
\* the message when it returns nil, else delete(conns, conn) and conn.Close()
OrdWrite(t, c) ==
    /\ oPc[t] = "range"
    /\ c \in oTodo[t]
    /\ IF Usable(c)
       THEN /\ oLog' = [oLog EXCEPT ![c] = Append(@, t)]
            /\ oTodo' = [oTodo EXCEPT ![t] = RangeRest(@, c)]
            /\ UNCHANGED <<connections, connState>>
       ELSE /\ connections' = PruneFailed(connections, oBoard[t], c)
            /\ connState' = [connState EXCEPT ![c] = "closed"]
            /\ oTodo' = [oTodo EXCEPT ![t] = TodoAfterFailure(RangeRest(@, c))]
            /\ UNCHANGED oLog
    /\ UNCHANGED <<rlVars, hubMutex, peerGone, wsPc, wsBoard, kaPc,
                   bcVars, ordFrame, oPc, oBoard, oAfter>>

\* lines 114-115: the range is over, the deferred Unlock runs, the call returns
OrdReturn(t) ==
    /\ oPc[t] = "range"
    /\ oTodo[t] = {}
    /\ hubMutex' = NoHolder
    /\ oPc' = [oPc EXCEPT ![t] = "done"]
    /\ UNCHANGED <<rlVars, connections, connState, peerGone, wsPc, wsBoard, kaPc,
                   bcVars, ordFrame, oBoard, oTodo, oAfter, oLog>>

NextOrd ==
    \/ \E c \in Conns, b \in Boards : WSUpgraded(c, b)
    \/ \E c \in Conns : WSRegister(c)
    \/ \E c \in Conns : PeerFail(c)
    \/ \E t \in Senders, b \in Boards : OrdInvoke(t, b)
    \/ \E t \in Senders : OrdLock(t)
    \/ \E t \in Senders, c \in Conns : OrdWrite(t, c)
    \/ \E t \in Senders : OrdReturn(t)

SpecOrd == Init /\ [][NextOrd]_vars

(***************************************************************************)
(* AuthMiddleware (auth_middleware.go:16-51) and the task handlers         *)
(* (task.go:68-135, 169-311) on the tasks table.                           *)
(***************************************************************************)
\* Authorization headers: none; a string that is no JWT; tokens signed with
\* the service's secret that differ from a good one in one point (another
\* algorithm, a wrong signature, exp in the past, no exp, no sub); good
\* tokens of the two users.
Tokens == {"absent", "garbage", "rs256", "badsig", "expired", "noexp", "nosub",
           "tok-u1", "tok-u2"}

HeaderPresent(tok) == tok # "absent"
IsJWT(tok) == tok \notin {"absent", "garbage"}
Alg(tok) == IF tok = "rs256" THEN "RS256" ELSE "HS256"
SignatureOk(tok) == tok # "badsig"
Exp(tok) == IF tok = "expired" THEN "past" ELSE IF tok = "noexp" THEN "missing" ELSE "future"
Sub(tok) == IF tok = "nosub" THEN "" ELSE IF tok = "tok-u2" THEN "u2" ELSE "u1"

\* lines 26-31: ParseWithClaims with WithValidMethods(HS256) returns a valid
\* token: a JWT, signed with HS256 and the secret, whose exp, when it has
\* one, is not past
ParseWithClaimsOk(tok) ==
    /\ IsJWT(tok)
    /\ Alg(tok) = "HS256"
    /\ SignatureOk(tok)
    /\ Exp(tok) # "past"

\* line 36: claims["exp"].(float64) is there
ExpPresentUnchecked(tok) == TRUE
ExpPresent(tok) == Exp(tok) # "missing"

\* lines 18-44: the middleware goes on to next
MiddlewareAccepts(tok) ==
    /\ HeaderPresent(tok)
    /\ ParseWithClaimsOk(tok)
    /\ ExpPresent(tok)
    /\ Sub(tok) # ""

\* lines 46-48: the key the middleware stores uid under is a constant of the
\* local type contextKey; the handlers (task.go:35, 69, 170, 199, 279,
\* handlers.go:149) look up the untyped constant "user_id", a string.
MiddlewareKey == "contextKey"
HandlerKey == "string"

\* r.Context().Value("user_id").(string) with the ok result dropped: Value
\* compares keys as interface values, type and all, and the failed assertion
\* on nil leaves the empty string
ContextValue(ctxKey, ctxVal, key) == IF ctxKey = key THEN ctxVal ELSE ""

\* Requests are numbered in the order they arrive.
NextReq(r) == \A q \in Reqs : q < r => hPc[q] # "new"

\* task.go:319-330, on the inputs used here
normalizeStatusKeepsUnknown(st) ==
    IF st \in {"", "todo"} THEN "todo"
    ELSE IF st \in {"Done", "done"} THEN "done"
    ELSE IF st \in {"in progress", "in-progress"} THEN "in-progress"
    ELSE st
normalizeStatus(st) ==
    IF st \in {"", "todo"} THEN "todo"
    ELSE IF st \in {"Done", "done"} THEN "done"
    ELSE IF st \in {"in progress", "in-progress"} THEN "in-progress"
    ELSE ""

\* strings.TrimSpace, on the inputs used here
TrimSpace(t) == IF t = " B " THEN "B" ELSE IF t = "  " THEN "" ELSE t

CreateBodies == {"valid", "not json", "no title"}
CreateTitles == {"A", "B"}
CreateStatuses == {"", "Done", "bogus"}
UpdateTitles == {"nil", "  ", " B "}
UpdateStatuses == {"nil", "Done", "bogus"}

\* createTask, lines 69-112: the answer of the checks, "go" when all pass
CreateChecks(uid, body, param, dbErr) ==
    IF uid = "" THEN "401"
    ELSE IF body # "valid" THEN "400"
    ELSE IF ~WellFormed(param) THEN "400"
    ELSE IF LookupFails(param, dbErr) THEN "404"
    ELSE IF Owner(param) # uid THEN "403"
    ELSE "go"

\* lines 114-117: the status of the new task
CreateStatus(st) == IF normalizeStatus(st) = "" THEN "todo" ELSE normalizeStatus(st)

\* getTaskByID 170-193, updateTaskByID 199-227, deleteTaskByID 279-302: the
\* answer of the checks the three share, "go" when all pass
ByIDChecksOwnerIgnored(uid, ctOk, rows, id, dbErr) ==
    IF uid = "" THEN "401"
    ELSE IF ~ctOk THEN "400"
    ELSE IF dbErr \/ id \notin DOMAIN rows THEN "404"
    ELSE "go"
ByIDChecks(uid, ctOk, rows, id, dbErr) ==
    IF uid = "" THEN "401"
    ELSE IF ~ctOk THEN "400"
    ELSE IF dbErr \/ id \notin DOMAIN rows THEN "404"
    ELSE IF Owner(rows[id].board) # uid THEN "403"
    ELSE "go"

\* The board of the task a by-id request is about, when the task is there
\* and the request is one only the caller can make the handler refuse.
TargetBoard(rows, id, ctOk, dbErr) ==
    IF ctOk /\ ~dbErr /\ id \in DOMAIN rows THEN rows[id].board ELSE "none"

\* updateTaskByID, lines 234-267: the body is refused
UpdateInputBad(bodyOk, titleIn, statusIn) ==
    \/ ~bodyOk
    \/ titleIn # "nil" /\ TrimSpace(titleIn) = ""
    \/ statusIn # "nil" /\ normalizeStatus(statusIn) = ""

\* lines 240-267: existingTask after the fields of the body were applied
UpdatedTask(old, titleIn, statusIn) ==
    [old EXCEPT !.title = IF titleIn = "nil" THEN @ ELSE TrimSpace(titleIn),
                !.status = IF statusIn = "nil" THEN @ ELSE normalizeStatus(statusIn)]

\* task.go:132, 274 and 308-309: the handlers that call BroadcastTaskUpdate
\* after their store write
CallsBroadcastOnCreateOnly(op) == op = "create"
CallsBroadcast(op) == op \in {"create", "update"}

\* the boardID argument and the fields of the task BroadcastTaskUpdate sends
\* (handlers.go:97-102)
BroadcastArgs(task) ==
    [board |-> task.board, task_id |-> task.id, title |-> task.title,
     status |-> task.status]

\* TaskRepo.Create, Update and Delete on the table (an UPDATE or DELETE of an
\* id without a row changes nothing and returns no error)
RowsAfterCreate(rows, task) ==
    [id \in DOMAIN rows \cup {task.id} |-> IF id = task.id THEN task ELSE rows[id]]
RowsAfterUpdate(rows, task) ==
    IF task.id \in DOMAIN rows
    THEN [rows EXCEPT ![task.id] = [@ EXCEPT !.title = task.title, !.status = task.status]]
    ELSE rows
RowsAfterDelete(rows, id) == [x \in DOMAIN rows \ {id} |-> rows[x]]

\* A request through the mux: AuthMiddleware, lines 17-50. 401 and return, or
\* uid is put in the context and next is called.
HAuthMiddleware(r, tok) ==
    /\ hPc[r] = "new"
    /\ NextReq(r)
    /\ hRoute' = [hRoute EXCEPT ![r] = "mux"]
    /\ hTok' = [hTok EXCEPT ![r] = tok]
    /\ IF MiddlewareAccepts(tok)
       THEN /\ hCtxKey' = [hCtxKey EXCEPT ![r] = MiddlewareKey]
            /\ hCtxVal' = [hCtxVal EXCEPT ![r] = Sub(tok)]
            /\ hNext' = [hNext EXCEPT ![r] = TRUE]
            /\ hPc' = [hPc EXCEPT ![r] = "handler"]
            /\ UNCHANGED hStatus
       ELSE /\ hStatus' = [hStatus EXCEPT ![r] = "401"]
            /\ hPc' = [hPc EXCEPT ![r] = "done"]
            /\ UNCHANGED <<hCtxKey, hCtxVal, hNext>>
    /\ UNCHANGED <<httpFrame, hBadStatus, tasks, usedIds, hUid, hOp, hBoard, hTask, hCommit, hSent>>

\* A handler called without the middleware, with a context that holds uid
\* under the string "user_id" (board_test.go:50-52).
HDirect(r, uid) ==
    /\ hPc[r] = "new"
    /\ NextReq(r)
    /\ hRoute' = [hRoute EXCEPT ![r] = "direct"]
    /\ hCtxKey' = [hCtxKey EXCEPT ![r] = HandlerKey]
    /\ hCtxVal' = [hCtxVal EXCEPT ![r] = uid]
    /\ hNext' = [hNext EXCEPT ![r] = TRUE]
    /\ hPc' = [hPc EXCEPT ![r] = "handler"]
    /\ UNCHANGED <<httpFrame, hBadStatus, tasks, usedIds, hTok, hUid, hOp, hBoard, hTask, hCommit,
                   hSent, hStatus>>

\* createTask, lines 69-127: the checks, then the new task with its uuid
HCreate(r, body, title, st, param, dbErr) ==
    /\ hPc[r] = "handler"
    /\ LET uid == ContextValue(hCtxKey[r], hCtxVal[r], HandlerKey)
           res == CreateChecks(uid, body, param, dbErr)
       IN /\ hUid' = [hUid EXCEPT ![r] = uid]
          /\ hOp' = [hOp EXCEPT ![r] = "create"]
          /\ hBoard' = [hBoard EXCEPT ![r] =
                          IF body = "valid" /\ ~LookupFails(param, dbErr) THEN param ELSE @]
          /\ IF res = "go"
             THEN \E id \in TaskIds \ usedIds :
                     /\ usedIds' = usedIds \cup {id}
                     /\ hTask' = [hTask EXCEPT ![r] = Task(id, param, title, CreateStatus(st))]
                     /\ hPc' = [hPc EXCEPT ![r] = "create"]
                     /\ UNCHANGED hStatus
             ELSE /\ hStatus' = [hStatus EXCEPT ![r] = res]
                  /\ hPc' = [hPc EXCEPT ![r] = "done"]
                  /\ UNCHANGED <<usedIds, hTask>>
    /\ UNCHANGED <<httpFrame, hBadStatus, tasks, hRoute, hTok, hCtxKey, hCtxVal, hNext, hCommit, hSent>>

\* lines 128-131: TaskRepo.Create
HCreateCommit(r, dbErr) ==
    /\ hPc[r] = "create"
    /\ IF dbErr
       THEN /\ hStatus' = [hStatus EXCEPT ![r] = "500"]
            /\ hPc' = [hPc EXCEPT ![r] = "done"]
            /\ UNCHANGED <<tasks, hCommit>>
       ELSE /\ tasks' = RowsAfterCreate(tasks, hTask[r])
            /\ hCommit' = [hCommit EXCEPT ![r] = TRUE]
            /\ IF CallsBroadcast("create")
               THEN /\ hPc' = [hPc EXCEPT ![r] = "broadcast"]
                    /\ UNCHANGED hStatus
               ELSE /\ hPc' = [hPc EXCEPT ![r] = "done"]
                    /\ hStatus' = [hStatus EXCEPT ![r] = "200"]
    /\ UNCHANGED <<httpFrame, hBadStatus, usedIds, hRoute, hTok, hCtxKey, hCtxVal, hNext, hUid, hOp,
                   hBoard, hTask, hSent>>

\* getTaskByID, lines 170-195
HGet(r, id, dbErr) ==
    /\ hPc[r] = "handler"
    /\ LET uid == ContextValue(hCtxKey[r], hCtxVal[r], HandlerKey)
           res == ByIDChecks(uid, TRUE, tasks, id, dbErr)
       IN /\ hUid' = [hUid EXCEPT ![r] = uid]
          /\ hOp' = [hOp EXCEPT ![r] = "get"]
          /\ hBoard' = [hBoard EXCEPT ![r] = TargetBoard(tasks, id, TRUE, dbErr)]
          /\ hTask' = [hTask EXCEPT ![r] = IF res = "go" THEN tasks[id] ELSE @]
          /\ hStatus' = [hStatus EXCEPT ![r] = IF res = "go" THEN "200" ELSE res]
          /\ hPc' = [hPc EXCEPT ![r] = "done"]
    /\ UNCHANGED <<httpFrame, hBadStatus, tasks, usedIds, hRoute, hTok, hCtxKey, hCtxVal, hNext,
                   hCommit, hSent>>

\* updateTaskByID, lines 199-268: the checks, then the body applied to the
\* task that was loaded
HUpdate(r, id, ctOk, bodyOk, titleIn, st, dbErr) ==
    /\ hPc[r] = "handler"
    /\ LET uid == ContextValue(hCtxKey[r], hCtxVal[r], HandlerKey)
           res == ByIDChecks(uid, ctOk, tasks, id, dbErr)
       IN /\ hUid' = [hUid EXCEPT ![r] = uid]
          /\ hOp' = [hOp EXCEPT ![r] = "update"]
          /\ hBoard' = [hBoard EXCEPT ![r] = TargetBoard(tasks, id, ctOk, dbErr)]
          /\ hBadStatus' = [hBadStatus EXCEPT ![r] =
                              res = "go" /\ bodyOk /\ st # "nil" /\ normalizeStatus(st) = ""]
          /\ IF res = "go" /\ ~UpdateInputBad(bodyOk, titleIn, st)
             THEN /\ hTask' = [hTask EXCEPT ![r] = UpdatedTask(tasks[id], titleIn, st)]
                  /\ hPc' = [hPc EXCEPT ![r] = "update"]
                  /\ UNCHANGED hStatus
             ELSE /\ hStatus' = [hStatus EXCEPT ![r] = IF res = "go" THEN "400" ELSE res]
                  /\ hPc' = [hPc EXCEPT ![r] = "done"]
                  /\ UNCHANGED hTask
    /\ UNCHANGED <<httpFrame, tasks, usedIds, hRoute, hTok, hCtxKey, hCtxVal, hNext,
                   hCommit, hSent>>

\* lines 270-273: TaskRepo.Update
HUpdateCommit(r, dbErr) ==
    /\ hPc[r] = "update"
    /\ IF dbErr
       THEN /\ hStatus' = [hStatus EXCEPT ![r] = "500"]
            /\ hPc' = [hPc EXCEPT ![r] = "done"]
            /\ UNCHANGED <<tasks, hCommit>>
       ELSE /\ tasks' = RowsAfterUpdate(tasks, hTask[r])
            /\ hCommit' = [hCommit EXCEPT ![r] = TRUE]
            /\ IF CallsBroadcast("update")
               THEN /\ hPc' = [hPc EXCEPT ![r] = "broadcast"]
                    /\ UNCHANGED hStatus
               ELSE /\ hPc' = [hPc EXCEPT ![r] = "done"]
                    /\ hStatus' = [hStatus EXCEPT ![r] = "200"]
    /\ UNCHANGED <<httpFrame, hBadStatus, usedIds, hRoute, hTok, hCtxKey, hCtxVal, hNext, hUid, hOp,
                   hBoard, hTask, hSent>>

\* deleteTaskByID, lines 279-302: the checks
HDelete(r, id, dbErr) ==
    /\ hPc[r] = "handler"
    /\ LET uid == ContextValue(hCtxKey[r], hCtxVal[r], HandlerKey)
           res == ByIDChecks(uid, TRUE, tasks, id, dbErr)
       IN /\ hUid' = [hUid EXCEPT ![r] = uid]
          /\ hOp' = [hOp EXCEPT ![r] = "delete"]
          /\ hBoard' = [hBoard EXCEPT ![r] = TargetBoard(tasks, id, TRUE, dbErr)]
          /\ IF res = "go"
             THEN /\ hTask' = [hTask EXCEPT ![r] = tasks[id]]
                  /\ hPc' = [hPc EXCEPT ![r] = "delete"]
                  /\ UNCHANGED hStatus
             ELSE /\ hStatus' = [hStatus EXCEPT ![r] = res]
                  /\ hPc' = [hPc EXCEPT ![r] = "done"]
                  /\ UNCHANGED hTask
    /\ UNCHANGED <<httpFrame, hBadStatus, tasks, usedIds, hRoute, hTok, hCtxKey, hCtxVal, hNext,
                   hCommit, hSent>>

\* lines 304-310: TaskRepo.Delete, then 204; the deletion is not broadcast
HDeleteCommit(r, dbErr) ==
    /\ hPc[r] = "delete"
    /\ IF dbErr
       THEN /\ hStatus' = [hStatus EXCEPT ![r] = "500"]
            /\ UNCHANGED <<tasks, hCommit>>
       ELSE /\ tasks' = RowsAfterDelete(tasks, hTask[r].id)
            /\ hCommit' = [hCommit EXCEPT ![r] = TRUE]
            /\ hStatus' = [hStatus EXCEPT ![r] = "204"]
    /\ hPc' = [hPc EXCEPT ![r] = "done"]
    /\ UNCHANGED <<httpFrame, hBadStatus, usedIds, hRoute, hTok, hCtxKey, hCtxVal, hNext, hUid, hOp,
                   hBoard, hTask, hSent>>

\* task.go:132-134 and 274-275: h.WSHub.BroadcastTaskUpdate(boardID, task) is
\* called and, when it has returned, the task is sent back (200)
HBroadcast(r) ==
    /\ hPc[r] = "broadcast"
    /\ hSent' = [hSent EXCEPT ![r] = Append(@, BroadcastArgs(hTask[r]))]
    /\ hStatus' = [hStatus EXCEPT ![r] = "200"]
    /\ hPc' = [hPc EXCEPT ![r] = "done"]
    /\ UNCHANGED <<httpFrame, hBadStatus, tasks, usedIds, hRoute, hTok, hCtxKey, hCtxVal, hNext, hUid,
                   hOp, hBoard, hTask, hCommit>>

NextHTTP ==
    \/ \E r \in Reqs, tok \in Tokens : HAuthMiddleware(r, tok)
    \/ \E r \in Reqs, uid \in Users : HDirect(r, uid)
    \/ \E r \in Reqs, body \in CreateBodies, title \in CreateTitles,
          st \in CreateStatuses, param \in BoardParams, dbErr \in BOOLEAN :
             HCreate(r, body, title, st, param, dbErr)
    \/ \E r \in Reqs, dbErr \in BOOLEAN : HCreateCommit(r, dbErr)
    \/ \E r \in Reqs, id \in TaskIds, dbErr \in BOOLEAN : HGet(r, id, dbErr)
    \/ \E r \in Reqs, id \in TaskIds, ctOk \in BOOLEAN, bodyOk \in BOOLEAN,
          titleIn \in UpdateTitles, st \in UpdateStatuses, dbErr \in BOOLEAN :
             HUpdate(r, id, ctOk, bodyOk, titleIn, st, dbErr)
    \/ \E r \in Reqs, dbErr \in BOOLEAN : HUpdateCommit(r, dbErr)
    \/ \E r \in Reqs, id \in TaskIds, dbErr \in BOOLEAN : HDelete(r, id, dbErr)
    \/ \E r \in Reqs, dbErr \in BOOLEAN : HDeleteCommit(r, dbErr)
    \/ \E r \in Reqs : HBroadcast(r)

SpecHTTP == Init /\ [][NextHTTP]_vars

(***************************************************************************)
(* The goroutines of the tasks service from mutex to mutex: a WebSocket    *)
(* session (handlers.go:116-157, 175-223), a task handler with its         *)
(* BroadcastTaskUpdate call (task.go:68-135, handlers.go:88-115) and the   *)
(* limiter's cleanup. Lock and the deferred Unlock are steps of their own.  *)
(***************************************************************************)
\* The mutex holder's names for the session of connection c and for the
\* handler of task request r.
SessionHolder(c) == CleanupProc + c
HandlerHolder(r) == CleanupProc + MaxConns + r

\* The mutexes goroutine p holds.
LocksHeld(p) ==
    (IF rlMutex = p THEN {"rl"} ELSE {}) \cup (IF hubMutex = p THEN {"hub"} ELSE {})

\* defer mutex.Unlock() (handlers.go:55, 90, 177, 186): the mutex is free
\* when the function has returned
DeferredUnlockMissing(m) == m
DeferredUnlock(m) == NoHolder

\* HandleWebSocket line 118, Allow line 54: rl.mutex.Lock()
KAllowLock(c) ==
    /\ wsPc[c] = "new"
    /\ NextConn(c)
    /\ MutexFree(rlMutex)
    /\ rlMutex' = SessionHolder(c)
    /\ wsPc' = [wsPc EXCEPT ![c] = "allow"]
    /\ UNCHANGED <<lockFrame, httpVars, attempts, connections, hubMutex, connState,
                   peerGone, wsBoard, atStore>>

\* Allow lines 57-67 with the key ip, the deferred Unlock, and lines 118-121
KAllowReturn(c, ip) ==
    /\ wsPc[c] = "allow"
    /\ LET count == LookupCount(attempts, ip)
           exists == LookupExists(attempts, ip)
       IN /\ attempts' = AllowAttempts(attempts, ip, count, exists, limit)
          /\ wsPc' = [wsPc EXCEPT ![c] =
                         IF AllowResult(count, exists, limit) THEN "authorize" ELSE "done"]
    /\ rlMutex' = DeferredUnlock(rlMutex)
    /\ UNCHANGED <<lockFrame, httpVars, connections, hubMutex, connState, peerGone,
                   wsBoard, atStore>>

\* upgradeAndAuthorize, lines 136-156: the upgrade, then BoardRepo.GetByID
\* for board b; the connection is closed when the caller is refused
KAuthorize(c, b, ok) ==
    /\ wsPc[c] = "authorize"
    /\ atStore' = atStore \cup LocksHeld(SessionHolder(c))
    /\ connState' = [connState EXCEPT ![c] = IF ok THEN "open" ELSE ClosedOnFailure(@)]
    /\ wsBoard' = [wsBoard EXCEPT ![c] = IF ok THEN b ELSE @]
    /\ wsPc' = [wsPc EXCEPT ![c] = IF ok THEN "register" ELSE "done"]
    /\ UNCHANGED <<lockFrame, httpVars, attempts, rlMutex, connections, hubMutex, peerGone>>

\* register, line 176, and unregister, line 185, called by readLoop (line
\* 217) when its read failed: hub.mutex.Lock()
KHubLock(c) ==
    /\ \/ wsPc[c] = "register" /\ wsPc' = [wsPc EXCEPT ![c] = "registering"]
       \/ wsPc[c] = "read" /\ ~Usable(c) /\ wsPc' = [wsPc EXCEPT ![c] = "unregistering"]
    /\ MutexFree(hubMutex)
    /\ hubMutex' = SessionHolder(c)
    /\ UNCHANGED <<lockFrame, httpVars, attempts, rlMutex, connections, connState,
                   peerGone, wsBoard, atStore>>

\* register, lines 178-181 and the deferred Unlock; the handler goes on to
\* readLoop
KRegisterReturn(c) ==
    /\ wsPc[c] = "registering"
    /\ connections' = register(connections, wsBoard[c], c)
    /\ hubMutex' = DeferredUnlock(hubMutex)
    /\ wsPc' = [wsPc EXCEPT ![c] = "read"]
    /\ UNCHANGED <<lockFrame, httpVars, attempts, rlMutex, connState, peerGone, wsBoard,
                   atStore>>

\* unregister, line 187 and the deferred Unlock, then conn.Close() (line 218)
KUnregisterReturn(c) ==
    /\ wsPc[c] = "unregistering"
    /\ connections' = unregister(connections, wsBoard[c], c)
    /\ hubMutex' = DeferredUnlock(hubMutex)
    /\ connState' = [connState EXCEPT ![c] = "closed"]
    /\ wsPc' = [wsPc EXCEPT ![c] = "done"]
    /\ UNCHANGED <<lockFrame, httpVars, attempts, rlMutex, peerGone, wsBoard, atStore>>

\* createTask, lines 104-131 (updateTaskByID, 213-273): BoardRepo.GetByID
\* and the TaskRepo calls for a task of board b
KHandlerStore(r, b, ok) ==
    /\ hPc[r] = "new"
    /\ NextReq(r)
    /\ atStore' = atStore \cup LocksHeld(HandlerHolder(r))
    /\ hBoard' = [hBoard EXCEPT ![r] = b]
    /\ hPc' = [hPc EXCEPT ![r] = IF ok THEN "broadcast" ELSE "done"]
    /\ UNCHANGED <<lockFrame, reqRest, attempts, rlMutex, connections, hubMutex, connState,
                   peerGone, wsPc, wsBoard>>

\* BroadcastTaskUpdate, line 89: h.mutex.Lock()
KBroadcastLock(r) ==
    /\ hPc[r] = "broadcast"
    /\ MutexFree(hubMutex)
    /\ hubMutex' = HandlerHolder(r)
    /\ hPc' = [hPc EXCEPT ![r] = "writing"]
    /\ UNCHANGED <<lockFrame, reqRest, hBoard, attempts, rlMutex, connections, connState,
                   peerGone, wsPc, wsBoard, atStore>>

\* lines 92-114 and the deferred Unlock: the message is written to every
\* conn of the board, those whose write fails are deleted and closed
KBroadcastReturn(r) ==
    /\ hPc[r] = "writing"
    /\ LET b == hBoard[r]
           failed == IF b \in DOMAIN connections
                     THEN {c \in connections[b] : ~Usable(c)} ELSE {}
       IN /\ connections' = IF b \in DOMAIN connections
                             THEN [connections EXCEPT ![b] = @ \ failed]
                             ELSE RegistryAfterMiss(connections, b)
          /\ connState' = [c \in Conns |-> IF c \in failed THEN "closed" ELSE connState[c]]
    /\ hubMutex' = DeferredUnlock(hubMutex)
    /\ hPc' = [hPc EXCEPT ![r] = "done"]
    /\ UNCHANGED <<lockFrame, reqRest, hBoard, attempts, rlMutex, peerGone, wsPc, wsBoard,
                   atStore>>

\* One client address and one board: which key is counted and which board
\* is subscribed to has no part in what is locked when.
NextLocks ==
    \/ \E c \in Conns : KAllowLock(c)
    \/ \E c \in Conns, ip \in {"ip1"} : KAllowReturn(c, ip)
    \/ \E c \in Conns, b \in {"b1"}, ok \in BOOLEAN : KAuthorize(c, b, ok)
    \/ \E c \in Conns : KHubLock(c)
    \/ \E c \in Conns : KRegisterReturn(c)
    \/ \E c \in Conns : KUnregisterReturn(c)
    \/ \E c \in Conns : PeerFail(c)
    \/ \E r \in Reqs, b \in {"b1"}, ok \in BOOLEAN : KHandlerStore(r, b, ok)
    \/ \E r \in Reqs : KBroadcastLock(r)
    \/ \E r \in Reqs : KBroadcastReturn(r)
    \/ CleanupLock
    \/ CleanupReset

SpecLocks == InitWS /\ [][NextLocks]_vars

(***************************************************************************)
(* TaskRepository called directly, as task_repository_test.go does: one    *)
(* SQL statement per method (tasks-service/db, methods Create, GetByID,    *)
(* Delete, Update). dbErr is a failure of the driver or the connection.    *)
(***************************************************************************)
RepoTitles == {"A", "B"}
RepoStatuses == {"todo", "done"}

\* Create: the error of the INSERT; tasks.id is the primary key
CreateError(rows, id, dbErr) == dbErr \/ id \in DOMAIN rows

\* GetByID: the error of Scan, sql.ErrNoRows when no row has the id
GetByIDError(rows, id, dbErr) == dbErr \/ id \notin DOMAIN rows

\* Update and Delete: the error of ExecContext is returned as it is and the
\* sql.Result, with its RowsAffected, is dropped; a statement whose WHERE
\* matches no row is no error
UpdateError(rows, id, dbErr) == dbErr
DeleteError(rows, id, dbErr) == dbErr

RepoCalled(op, id, err) ==
    /\ repoOp' = op
    /\ repoId' = id
    /\ repoErr' = err
    /\ repoBefore' = tasks
    /\ UNCHANGED repoFrame

RepoCreate(id, b, title, st, dbErr) ==
    /\ tasks' = IF CreateError(tasks, id, dbErr) THEN tasks
                ELSE RowsAfterCreate(tasks, Task(id, b, title, st))
    /\ RepoCalled("Create", id, CreateError(tasks, id, dbErr))

RepoGetByID(id, dbErr) ==
    /\ tasks' = tasks
    /\ RepoCalled("GetByID", id, GetByIDError(tasks, id, dbErr))

RepoUpdate(id, title, st, dbErr) ==
    /\ tasks' = IF dbErr THEN tasks ELSE RowsAfterUpdate(tasks, Task(id, "none", title, st))
    /\ RepoCalled("Update", id, UpdateError(tasks, id, dbErr))

RepoDelete(id, dbErr) ==
    /\ tasks' = IF dbErr THEN tasks ELSE RowsAfterDelete(tasks, id)
    /\ RepoCalled("Delete", id, DeleteError(tasks, id, dbErr))

NextRepo ==
    \/ \E id \in TaskIds, b \in Boards, title \in RepoTitles, st \in RepoStatuses,
          dbErr \in BOOLEAN : RepoCreate(id, b, title, st, dbErr)
    \/ \E id \in TaskIds, dbErr \in BOOLEAN : RepoGetByID(id, dbErr)
    \/ \E id \in TaskIds, title \in RepoTitles, st \in RepoStatuses, dbErr \in BOOLEAN :
          RepoUpdate(id, title, st, dbErr)
    \/ \E id \in TaskIds, dbErr \in BOOLEAN : RepoDelete(id, dbErr)

SpecRepo == Init /\ [][NextRepo]_vars

(***************************************************************************)
(* The auth service's Login handler behind its RateLimiter                 *)
(* (auth-service/handlers: Login, and Allow and cleanup, which are the     *)
(* tasks service's line for line).                                         *)
(***************************************************************************)
\* The addresses requests come from: two connections of one host.
RemoteAddrs == {<<"ip1", "p1">>, <<"ip1", "p2">>}

Host(addr) == addr[1]

\* Login, line 23: clientIP := request.RemoteAddr, the "IP:port" of the
\* connection as net/http sets it; the port is not split off
LoginKey(addr) == addr

\* The mutex holder's name for login request l.
LoginHolder(l) == CleanupProc + l

\* Login requests are numbered in the order they arrive.
NextLogin(l) == \A m \in Logins : m < l => lPc[m] # "new"

\* lines 17-21: the method check
MethodAllowed(method) == method = "POST"

\* lines 24-28: what follows Allow's answer
AfterLoginAllow(res) == IF res THEN "body" ELSE "done"

\* lines 34-41: the body is JSON with a well-formed email and password
LoginBodies == {"bad json", "bad input", "valid"}
BodyAccepted(body) == body = "valid"

\* lines 44-64: the answer after the user store was asked
LoginAnswer(found, pwOk, secretSet) ==
    IF ~found THEN "401"
    ELSE IF ~pwOk THEN "401"
    ELSE IF ~secretSet THEN "500"
    ELSE "200"

\* Login, lines 17-23: the method check and the key
LoginStart(l, method, addr) ==
    /\ lPc[l] = "new"
    /\ NextLogin(l)
    /\ IF MethodAllowed(method)
       THEN /\ lAddr' = [lAddr EXCEPT ![l] = addr]
            /\ lKey' = [lKey EXCEPT ![l] = LoginKey(addr)]
            /\ lPc' = [lPc EXCEPT ![l] = "lock"]
            /\ UNCHANGED lStatus
       ELSE /\ lStatus' = [lStatus EXCEPT ![l] = "405"]
            /\ lPc' = [lPc EXCEPT ![l] = "done"]
            /\ UNCHANGED <<lAddr, lKey>>
    /\ UNCHANGED <<rlVars, loginFrame, lOrd, lStore>>

\* Allow, line 54, called at Login line 24: rateLimiter.mutex.Lock()
LoginLock(l) ==
    /\ lPc[l] = "lock"
    /\ MutexFree(rlMutex)
    /\ rlMutex' = LoginHolder(l)
    /\ lPc' = [lPc EXCEPT ![l] = "allow"]
    /\ UNCHANGED <<limit, attempts, rlPc, rlKey, rlCount, rlExists, rlRes, cleanPc,
                   granted, deniedNow, deniedBefore, regained,
                   loginFrame, lAddr, lKey, lOrd, lStore, lStatus>>

\* Allow, lines 57-67, and Login, lines 24-28: the count is read, the map
\* updated, the mutex released; 429 when Allow returned false
LoginAllow(l) ==
    /\ lPc[l] = "allow"
    /\ LET count == LookupCount(attempts, lKey[l])
           exists == LookupExists(attempts, lKey[l])
           res == AllowResult(count, exists, limit)
           after == AllowAttempts(attempts, lKey[l], count, exists, limit)
       IN /\ attempts' = after
          /\ lOrd' = [lOrd EXCEPT ![l] = IF res THEN after[lKey[l]] ELSE 0]
          /\ lPc' = [lPc EXCEPT ![l] = AfterLoginAllow(res)]
          /\ lStatus' = [lStatus EXCEPT ![l] = IF AfterLoginAllow(res) = "done" THEN "429" ELSE @]
    /\ rlMutex' = IF rlMutex = LoginHolder(l) THEN NoHolder ELSE rlMutex
    /\ UNCHANGED <<limit, rlPc, rlKey, rlCount, rlExists, rlRes, cleanPc,
                   granted, deniedNow, deniedBefore, regained,
                   loginFrame, lAddr, lKey, lStore>>

\* lines 30-41: the body is decoded and validated
LoginBody(l, body) ==
    /\ lPc[l] = "body"
    /\ IF BodyAccepted(body)
       THEN /\ lPc' = [lPc EXCEPT ![l] = "store"]
            /\ UNCHANGED lStatus
       ELSE /\ lStatus' = [lStatus EXCEPT ![l] = "400"]
            /\ lPc' = [lPc EXCEPT ![l] = "done"]
    /\ UNCHANGED <<rlVars, loginFrame, lAddr, lKey, lOrd, lStore>>

\* lines 44-73: UserRepo.GetByEmail, the password, the token
LoginStore(l, found, pwOk, secretSet) ==
    /\ lPc[l] = "store"
    /\ lStore' = [lStore EXCEPT ![l] = TRUE]
    /\ lStatus' = [lStatus EXCEPT ![l] = LoginAnswer(found, pwOk, secretSet)]
    /\ lPc' = [lPc EXCEPT ![l] = "done"]
    /\ UNCHANGED <<rlVars, loginFrame, lAddr, lKey, lOrd>>

\* The auth service with a RateLimiter of any limit, as main and the tests
\* construct it.
InitLogin ==
    /\ \E l \in Limits : NewRateLimiter(l)
    /\ InitCallers
    /\ InitHub
    /\ InitExt

NextLoginStep ==
    \/ \E l \in Logins, method \in {"POST", "GET"}, addr \in RemoteAddrs :
          LoginStart(l, method, addr)
    \/ \E l \in Logins : LoginLock(l)
    \/ \E l \in Logins : LoginAllow(l)
    \/ \E l \in Logins, body \in LoginBodies : LoginBody(l, body)
    \/ \E l \in Logins, found \in BOOLEAN, pwOk \in BOOLEAN, secretSet \in BOOLEAN :
          LoginStore(l, found, pwOk, secretSet)
    \/ CleanupLock
    \/ CleanupReset

SpecLogin == InitLogin /\ [][NextLoginStep]_vars

(***************************************************************************)
(* Properties of the RateLimiter, checked under SpecRL.                    *)
(***************************************************************************)

\* C1: for every key, the Allow calls that returned true since the last reset
\* of the counter map number at most `limit`.
C1_AtMostLimitGranted == \A k \in Keys : granted[k] <= limit

\* C2: a RateLimiter constructed with limit = 0 never returns true from Allow.
C2_LimitZeroDeniesAll == limit = 0 => \A p \in Callers : rlRes[p] # "true"

\* C3: a reset leaves the attempts map empty, and the first Allow after a
\* reset for a key that was denied before that reset returns true.
C3_ResetRestoresQuota ==
    [][ /\ (cleanPc = "reset" /\ cleanPc' = "sleep") => attempts' = EmptyAttempts
        /\ \A p \in Callers :
              (rlPc[p] = "decide" /\ rlPc'[p] = "idle" /\ rlKey[p] \in deniedBefore)
                  => rlRes'[p] = "true" ]_vars

\* C3 witness: a key was denied, the map was reset, and the key's next Allow
\* returned true.
C3_Witness ==
    \E p \in Callers :
        /\ rlPc[p] = "idle" /\ rlRes[p] = "true"
        /\ rlKey[p] \in regained
        /\ rlKey[p] \in DOMAIN attempts /\ attempts[rlKey[p]] = 1

\* C4: each Allow(k) call follows the fixed-window reference. An absent key:
\* true, count 1. A count below the limit: true, count + 1. A count at or
\* above the limit: false, no change. The other keys keep their counts.
C4_AllowFollowsReference ==
    [][ \A p \in Callers :
          (rlPc[p] = "decide" /\ rlPc'[p] = "idle") =>
            LET k == rlKey[p] IN
            /\ k \notin DOMAIN attempts =>
                 /\ rlRes'[p] = "true"
                 /\ k \in DOMAIN attempts' /\ attempts'[k] = 1
            /\ (k \in DOMAIN attempts /\ attempts[k] < limit) =>
                 /\ rlRes'[p] = "true"
                 /\ k \in DOMAIN attempts' /\ attempts'[k] = attempts[k] + 1
            /\ (k \in DOMAIN attempts /\ attempts[k] >= limit) =>
                 /\ rlRes'[p] = "false"
                 /\ attempts' = attempts
            /\ \A j \in Keys \ {k} :
                 /\ (j \in DOMAIN attempts') = (j \in DOMAIN attempts)
                 /\ j \in DOMAIN attempts => attempts'[j] = attempts[j] ]_vars

\* C4 witness: a key went absent -> 1 -> 2 = limit and was then denied, while
\* another key holds a count of its own.
C4_Witness ==
    \E p \in Callers :
        /\ rlPc[p] = "idle" /\ rlRes[p] = "false"
        /\ limit >= 2
        /\ rlKey[p] \in deniedNow
        /\ rlKey[p] \in DOMAIN attempts /\ attempts[rlKey[p]] = limit
        /\ granted[rlKey[p]] = limit
        /\ \E j \in DOMAIN attempts : j # rlKey[p]

(***************************************************************************)
(* Properties of the WSHub, checked under Spec.                            *)
(***************************************************************************)

\* A step of the BroadcastTaskUpdate call (no other action changes bPc).
BroadcastStep == bPc' # bPc

\* The map with conn c taken out of board b's set and nothing else changed.
WithoutConn(conns, b, c) ==
    [x \in DOMAIN conns |-> IF x = b THEN conns[x] \ {c} ELSE conns[x]]

\* The map with conn c in board b's set, made when absent, nothing else changed.
WithConn(conns, b, c) ==
    [x \in DOMAIN conns \cup {b} |->
        IF x = b THEN (IF x \in DOMAIN conns THEN conns[x] ELSE {}) \cup {c}
        ELSE conns[x]]

\* C5: one Broadcast calls WriteMessage on every connection registered for
\* the board, delivers to those whose write succeeds, removes and closes
\* exactly those whose write fails and leaves every other entry of every
\* board in place; no later Broadcast writes to a connection removed so.
C5_BroadcastIsolatesFailure ==
    [][ /\ (bPc = "range" /\ bPc' = "idle") =>
             /\ bTried = bSubs
             /\ bDelivered \cup bFailed = bSubs
             /\ bDelivered \cap bFailed = {}
             /\ connections[bBoard] = bSubs \ bFailed
             /\ \A c \in bFailed : connState[c] = "closed"
        /\ (bPc = "write" /\ bPc' = "range" /\ Usable(bCur)) =>
             /\ bDelivered' = bDelivered \cup {bCur}
             /\ bFailed' = bFailed
             /\ connections' = connections
             /\ connState' = connState
        /\ (bPc = "write" /\ bPc' = "range" /\ ~Usable(bCur)) =>
             /\ bFailed' = bFailed \cup {bCur}
             /\ bDelivered' = bDelivered
             /\ connections' = WithoutConn(connections, bBoard, bCur)
             /\ connState'[bCur] = "closed"
             /\ \A c \in Conns \ {bCur} : connState'[c] = connState[c]
        /\ (BroadcastStep /\ bPc # "write") =>
             /\ connections' = connections
             /\ connState' = connState
        /\ (bPc = "range" /\ bPc' = "write") => bCur' \notin pruned ]_vars

\* C5 witness: a Broadcast over a board with two subscribers has finished its
\* range: one write failed, the other was delivered.
C5_Witness ==
    /\ bPc = "range" /\ bTodo = {}
    /\ Cardinality(bSubs) >= 2
    /\ bFailed # {} /\ bDelivered # {}
    /\ connections[bBoard] = bDelivered

\* C6: a Broadcast for board B writes only to connections registered under B
\* at that moment: the connection it writes to, and each one it delivers to,
\* is in B's set, and is a connection admitted for B and no other board.
C6_OneBoardDelivery ==
    /\ [](bPc \in {"range", "write"} =>
            \A c \in bTried : wsBoard[c] = bBoard)
    /\ [][ /\ (bPc = "range" /\ bPc' = "write") =>
                bCur' \in connections[bBoard]
           /\ (bPc = "write" /\ bPc' = "range") =>
                \A c \in bDelivered' \ bDelivered :
                    /\ c \in connections[bBoard]
                    /\ \A a \in DOMAIN connections \ {bBoard} :
                          c \notin connections[a] ]_vars

\* C6 witness: both boards have a live subscriber and a Broadcast for one of
\* them has delivered its message and finished its range.
C6_Witness ==
    /\ bPc = "range" /\ bTodo = {} /\ bDelivered # {}
    /\ \E a \in DOMAIN connections \ {bBoard} :
          \E c \in connections[a] : Usable(c)

\* C7: a Broadcast for a board without an entry, or with an empty subscriber
\* set, calls no WriteMessage, closes nothing and leaves the map as it was
\* (no entry is made for the board).
C7_NoSubscriberNoOp ==
    [][ /\ (BroadcastStep /\ bPc = "lookup" /\ bBoard \notin DOMAIN connections) =>
             /\ bPc' = "idle"
             /\ hubMutex' = NoHolder
             /\ connections' = connections
             /\ connState' = connState
        /\ (BroadcastStep /\ bPc = "lookup" /\ bBoard \in DOMAIN connections
                /\ connections[bBoard] = {}) =>
             /\ bTodo' = {}
             /\ connections' = connections
             /\ connState' = connState
        /\ (BroadcastStep /\ bPc = "range" /\ bSubs = {}) =>
             /\ bPc' = "idle"
             /\ hubMutex' = NoHolder
             /\ bTried = {}
             /\ connections' = connections
             /\ connState' = connState ]_vars

\* C7 witness: a Broadcast found the empty set of a board whose subscribers had
\* all left, and ranged over nothing, while the other board has a subscriber.
C7_Witness ==
    /\ bPc = "range" /\ bSubs = {} /\ bTodo = {} /\ bTried = {}
    /\ \E a \in DOMAIN connections : \E c \in connections[a] : Usable(c)

\* C8: Unregister(b, c) takes c out of b's set and changes nothing else; with
\* c absent, with no set for b, or called again, it leaves the map as it was
\* and makes no entry. Every unregister call of a session does so.
C8_UnregisterIdempotent ==
    /\ [](\A b \in Boards, c \in Conns :
            LET u == unregister(connections, b, c) IN
            /\ DOMAIN u = DOMAIN connections
            /\ \A x \in DOMAIN u :
                  u[x] = IF x = b THEN connections[x] \ {c} ELSE connections[x]
            /\ (b \notin DOMAIN connections \/ c \notin connections[b])
                  => u = connections
            /\ unregister(u, b, c) = u)
    /\ [][ \A c \in Conns :
             ((wsPc[c] = "read" /\ wsPc'[c] = "close")
                \/ (kaPc[c] = "tick" /\ kaPc'[c] = "close"))
             => connections' = WithoutConn(connections, wsBoard[c], c) ]_vars

\* C8 witness: both loops of a session have called unregister for the same
\* pair, another connection is still registered under that board, and one
\* board has no set at all.
C8_Witness ==
    \E c \in Conns :
        /\ wsPc[c] \in {"close", "done"} /\ kaPc[c] \in {"close", "done"}
        /\ \E d \in Conns \ {c} : d \in connections[wsBoard[c]]
        /\ \E a \in Boards : a \notin DOMAIN connections

\* C9: Register(b, c) makes b's set when absent, adds c and changes no other
\* set; registering the same pair again changes nothing, and one Broadcast
\* writes to a registered connection once.
C9_RegisterIdempotent ==
    /\ [](\A b \in Boards, c \in Conns :
            LET r == register(connections, b, c) IN
            /\ r = WithConn(connections, b, c)
            /\ register(r, b, c) = r)
    /\ [][ /\ \A c \in Conns :
                (wsPc[c] = "register" /\ wsPc'[c] # "register")
                   => connections' = WithConn(connections, wsBoard[c], c)
           /\ (bPc = "range" /\ bPc' = "write") => bCur' \notin bTried
           /\ (bPc = "write" /\ bPc' = "range") => bCur \notin bDelivered ]_vars

\* C9 witness: two connections are registered under one board and a Broadcast
\* has delivered its message to both.
C9_Witness ==
    /\ bPc = "range" /\ bTodo = {}
    /\ Cardinality(bDelivered) >= 2
    /\ bDelivered = connections[bBoard]

Registered(conns) == UNION {conns[x] : x \in DOMAIN conns}

\* The read loop of c has ended (lines 216-221), or its keep-alive goroutine
\* has returned (lines 203-208).
LoopEnded(c) == kaPc[c] = "done" \/ (wsPc[c] = "done" /\ kaPc[c] # "off")

\* C11: session teardown. Once the read loop or the keep-alive loop of a
\* connection has ended, whatever the other loop and Broadcast's pruning did,
\* the connection is in no board's set and is closed; and this happens once:
\* a connection enters the registry only in the register step of its handler,
\* which it takes once, so after it left it never comes back, and a closed
\* connection never reopens (the later unregister and Close calls of the other
\* loop change nothing).
C11_SessionTeardown ==
    /\ [](\A c \in Conns :
            LoopEnded(c) =>
                c \notin Registered(connections) /\ connState[c] = "closed")
    /\ [][\A c \in Conns :
            /\ (c \notin Registered(connections) /\ c \in Registered(connections'))
                  => wsPc[c] = "register"
            /\ (wsPc[c] # "register" /\ wsPc'[c] = "register") => wsPc[c] = "new"
            /\ connState[c] = "closed" => connState'[c] = "closed"]_vars

\* Both loops of a session have ended and a Broadcast had pruned it before:
\* unregister and Close were each called by all three.
C11_Witness ==
    \E c \in Conns :
        /\ wsPc[c] = "done"
        /\ kaPc[c] = "done"
        /\ c \in pruned
        /\ \E d \in Conns \ {c} : d \in Registered(connections)

\* C17: in every reachable registry a connection is in the set of at most
\* one board, the board its request was authorized for.
C17_OneBoardPerConn ==
    \A c \in Conns :
        /\ Cardinality({b \in DOMAIN connections : c \in connections[b]}) <= 1
        /\ \A b \in DOMAIN connections : c \in connections[b] => wsBoard[c] = b

\* Two connections are registered, under two boards.
C17_Witness ==
    \E c, d \in Conns :
        /\ c # d
        /\ "b1" \in DOMAIN connections /\ c \in connections["b1"]
        /\ "b2" \in DOMAIN connections /\ d \in connections["b2"]

(***************************************************************************)
(* Properties of the upgrade path, checked under SpecWS.                   *)
(***************************************************************************)
\* How HandleWebSocket answers a request it turns away.
WSFailures == {"429", "upgrade failed", "invalid board id", "forbidden"}

\* The request names a board of the store and its caller owns that board.
OwnerRequest(c) == wsParam[c] \in Boards /\ wsUid[c] = Owner(wsParam[c])

\* C12, as claimed: the upgrade comes after the board id was parsed, the board
\* looked up and the owner compared, so a live connection belongs to a request
\* that passed all three.
C12_UpgradeOnlyOnFullSuccess ==
    \A c \in Conns :
        connState[c] = "open" => wsStore[c] /\ OwnerRequest(c)

\* C12, amended: the upgrade comes first, after the rate limiter and the
\* origin validation only; the board id, the lookup and the owner are checked
\* on the upgraded connection. A live connection of a request that has not
\* passed them is still inside upgradeAndAuthorize and is not registered; it
\* is closed when the handler returns; the requests let through are the
\* owners' requests for boards of the store.
C12_UpgradeThenAuthorize ==
    \A c \in Conns :
        /\ connState[c] # "new" => wsAllow[c] = "true" /\ wsOrigin[c] = "ok"
        /\ (connState[c] = "open" /\ wsStatus[c] # "authorized")
              => wsPc[c] \in {"parse", "authorize"}
                 /\ c \notin Registered(connections)
        /\ wsPc[c] = "done" => connState[c] # "open"
        /\ wsStatus[c] = "authorized" => wsStore[c] /\ OwnerRequest(c)

\* A non-owner's request for a board of the store was upgraded, refused and
\* closed, and so was a request with a malformed board id.
C12_Witness ==
    \E c, d \in Conns :
        /\ wsStatus[c] = "forbidden"
        /\ wsParam[c] \in Boards
        /\ wsUid[c] \in Users
        /\ wsUid[c] # Owner(wsParam[c])
        /\ connState[c] = "closed"
        /\ wsStatus[d] = "invalid board id"
        /\ connState[d] = "closed"

\* C13: a request that is turned away (upgrade error, malformed board id,
\* board not found, caller not the owner) ends with its connection, if one
\* was made, closed, with the registry as it was and with neither loop
\* started; a connection is in the registry only if its request passed the
\* rate limiter, named a board of the store and came from that board's owner.
C13_FailedAttemptLeavesNoTrace ==
    /\ [](\A c \in Conns :
            /\ wsStatus[c] \in WSFailures =>
                  /\ connState[c] # "open"
                  /\ wsPc[c] = "done"
                  /\ kaPc[c] = "off"
                  /\ c \notin Registered(connections)
            /\ c \in Registered(connections) =>
                  /\ wsAllow[c] = "true"
                  /\ OwnerRequest(c)
                  /\ c \in connections[wsParam[c]])
    /\ [][\A c \in Conns :
            (wsStatus[c] \notin WSFailures /\ wsStatus'[c] \in WSFailures)
                => /\ connections' = connections
                   /\ connState[c] = "open" => connState'[c] = "closed"]_vars

\* An owner is registered for a board and its loops run; another user's
\* request for the same board was upgraded, refused and closed.
C13_Witness ==
    \E c, d \in Conns :
        /\ c \in Registered(connections)
        /\ kaPc[c] = "tick"
        /\ wsStatus[d] = "forbidden"
        /\ wsParam[d] = wsParam[c]
        /\ wsUid[d] \in Users \ {wsUid[c]}
        /\ connState[d] = "closed"

\* C14: a request the rate limiter denies is rejected before the upgrade: no
\* connection is made, checkOrigin and the board store are not consulted, the
\* registry does not change.
C14_RateLimitedBeforeUpgrade ==
    /\ [](\A c \in Conns :
            wsAllow[c] = "false" =>
                /\ wsStatus[c] = "429"
                /\ wsPc[c] = "done"
                /\ connState[c] = "new"
                /\ wsOrigin[c] = "unchecked"
                /\ ~wsStore[c]
                /\ c \notin Registered(connections))
    /\ [][\A c \in Conns :
            (wsAllow[c] = "none" /\ wsAllow'[c] = "false")
                => connections' = connections]_vars

\* A request was denied while an earlier one is registered.
C14_Witness ==
    \E c, d \in Conns :
        /\ wsAllow[c] = "false"
        /\ wsStatus[c] = "429"
        /\ d \in Registered(connections)
        /\ limit >= 1

(***************************************************************************)
(* Properties of the order of delivery, checked under SpecOrd.             *)
(***************************************************************************)
\* Sender s's message is at position i of what connection c received.
ReceivedAt(c, s, i) == i \in 1 .. Len(oLog[c]) /\ oLog[c][i] = s

\* C15: per-connection ordering. When the call of sender s had returned
\* before the call of sender t was made and a connection received both
\* messages, it received s's first; and no connection receives the message of
\* one call twice. The senders are request handlers running concurrently.
C15_PerConnectionOrder ==
    \A c \in Conns :
        /\ \A i, j \in 1 .. Len(oLog[c]) : i # j => oLog[c][i] # oLog[c][j]
        /\ \A s, t \in Senders :
              s \in oAfter[t] =>
                 \A i, j \in 1 .. Len(oLog[c]) :
                    (ReceivedAt(c, s, i) /\ ReceivedAt(c, t, j)) => i < j

\* A connection received the messages of two calls, the second made after
\* the first had returned, while another connection of the board had failed.
C15_Witness ==
    \E c \in Conns, s, t \in Senders :
        /\ s \in oAfter[t]
        /\ ReceivedAt(c, s, 1)
        /\ ReceivedAt(c, t, 2)
        /\ \E d \in Conns \ {c} : wsBoard[d] = wsBoard[c] /\ connState[d] = "closed"

(***************************************************************************)
(* Properties of the middleware and the task handlers, under SpecHTTP.     *)
(***************************************************************************)
\* The status codes of a refused request and of a failed store write.
Refusals == {"400", "401", "403", "404", "500"}

\* C16: a task create or update whose store write succeeded is followed by
\* one BroadcastTaskUpdate call, for the task's board, with the id, title and
\* status that were written; a request that was refused, whose store write
\* failed, or that wrote nothing never calls it.
C16_BroadcastAfterCommit ==
    /\ [](\A r \in Reqs :
            /\ (hCommit[r] /\ hOp[r] \in {"create", "update"})
                  => hPc[r] \in {"broadcast", "done"}
            /\ (hPc[r] = "done" /\ hCommit[r] /\ hOp[r] \in {"create", "update"})
                  => hSent[r] = <<BroadcastArgs(hTask[r])>>
            /\ (hStatus[r] \in Refusals \/ ~hCommit[r] \/ hOp[r] = "delete")
                  => hSent[r] = <<>>
            /\ (hPc[r] = "broadcast" /\ hTask[r].id \in DOMAIN tasks
                   /\ \A q \in Reqs \ {r} : ~hCommit[q])
                  => tasks[hTask[r].id] = hTask[r])
    /\ [][\A r \in Reqs :
            (~hCommit[r] /\ hCommit'[r] /\ hOp[r] = "create")
                => /\ hTask[r].id \notin DOMAIN tasks
                   /\ tasks'[hTask[r].id] = hTask[r]]_vars

\* A create and an update of the created task were written and broadcast,
\* the update with the trimmed title and the normalized status.
C16_Witness ==
    \E q, r \in Reqs :
        /\ hOp[q] = "create" /\ hPc[q] = "done" /\ Len(hSent[q]) = 1
        /\ hOp[r] = "update" /\ hPc[r] = "done" /\ Len(hSent[r]) = 1
        /\ hSent[r][1].task_id = hSent[q][1].task_id
        /\ hSent[r][1].title = "B"
        /\ hSent[r][1].status = "done"
        /\ hSent[q][1].title = "A"

\* The token is signed with HS256 and the secret, has an exp that is not
\* past and a non-empty sub.
ValidToken(tok) ==
    /\ tok \notin {"absent", "garbage"}
    /\ Alg(tok) = "HS256"
    /\ SignatureOk(tok)
    /\ Exp(tok) = "future"
    /\ Sub(tok) \in Users

\* C18: AuthMiddleware calls the wrapped handler only for a request with a
\* valid token (HS256, good signature, exp present and not past, non-empty
\* sub); every other request through it is answered 401 and the handler is
\* not called.
C18_MiddlewareGate ==
    \A r \in Reqs :
        hRoute[r] = "mux" =>
            /\ hNext[r] => ValidToken(hTok[r])
            /\ ~ValidToken(hTok[r]) =>
                  /\ hStatus[r] = "401"
                  /\ hPc[r] = "done"
                  /\ hOp[r] = "none"
                  /\ hSent[r] = <<>>
            /\ ValidToken(hTok[r]) => hNext[r]

\* A token without exp was answered 401 and a good token reached the handler.
C18_Witness ==
    \E q, r \in Reqs :
        /\ hRoute[q] = "mux" /\ hTok[q] = "noexp" /\ hStatus[q] = "401"
        /\ hRoute[r] = "mux" /\ hTok[r] = "tok-u2" /\ hNext[r] /\ hOp[r] # "none"

\* C19: the handler behind AuthMiddleware reads, under "user_id", the sub of
\* the token the middleware accepted, so it does not answer 401.
C19_HandlerSeesSubject ==
    \A r \in Reqs :
        (hRoute[r] = "mux" /\ hUid[r] # "none") =>
            /\ hUid[r] = Sub(hTok[r])
            /\ hStatus[r] # "401"

\* The caller of a request: the sub of its token, or the uid its context
\* was built with.
Caller(r) == IF hRoute[r] = "mux" THEN Sub(hTok[r]) ELSE hCtxVal[r]

\* C20: a request of an authenticated user for a task of a board another user
\* owns (create, get, update, delete), with nothing else wrong, is answered
\* 403, writes nothing and calls no Broadcast.
C20_NonOwnerForbidden ==
    \A r \in Reqs :
        (/\ hPc[r] = "done"
         /\ hNext[r]
         /\ Caller(r) \in Users
         /\ hBoard[r] \in Boards
         /\ Owner(hBoard[r]) # Caller(r))
            => /\ hStatus[r] = "403"
               /\ ~hCommit[r]
               /\ hSent[r] = <<>>

(***************************************************************************)
(* Properties of TaskRepository, checked under SpecRepo.                   *)
(***************************************************************************)
\* C21: Update and Delete called with the id of a task that is not in the
\* store return an error and leave the store unchanged.
C21_MissingRowIsError ==
    (repoOp \in {"Update", "Delete"} /\ repoId \notin DOMAIN repoBefore)
        => (repoErr /\ tasks = repoBefore)

(***************************************************************************)
(* Properties of Login, checked under SpecLogin.                           *)
(***************************************************************************)
\* The login requests whose Allow call changes the state in this step.
AllowReturns(l) == lPc[l] = "allow" /\ lPc'[l] # "allow"

\* C22: login is gated by the rate limiter. A request answered 200 was let
\* through as one of the first `limit` of its key in its window (so at most
\* `limit` of them are); a request answered 429 never reached the user
\* store; an Allow call that lets a request through adds one to the key's
\* count, whatever the body holds, nothing after it gives the unit back, and
\* a request of another method leaves the counts alone.
C22_LoginGated ==
    /\ [](\A l \in Logins :
            /\ lStatus[l] = "200" => (lOrd[l] >= 1 /\ lOrd[l] <= limit)
            /\ lStatus[l] = "429" => (~lStore[l] /\ lOrd[l] = 0)
            /\ lStatus[l] = "405" => (lKey[l] = <<>> /\ lOrd[l] = 0))
    /\ [][\A l \in Logins :
            /\ (AllowReturns(l) /\ lPc'[l] = "body")
                   => LookupCount(attempts', lKey[l]) = LookupCount(attempts, lKey[l]) + 1
            /\ (lPc[l] \in {"new", "body", "store"} /\ lPc'[l] # lPc[l])
                   => attempts' = attempts]_vars

\* The Allow calls a host was granted in the current window, over all the
\* keys its requests were counted under.
RECURSIVE SumCounts(_, _)
SumCounts(att, ks) ==
    IF ks = {} THEN 0
    ELSE LET k == CHOOSE x \in ks : TRUE
         IN att[k] + SumCounts(att, ks \ {k})

HostCount(att, ip) == SumCounts(att, {k \in DOMAIN att : Host(k) = ip})

\* C26: the login rate limiter is per client IP. Two login requests from the
\* same IP address, whatever their ports, are counted under the same key,
\* and no IP address is granted more than `limit` attempts in one window.
C26_PerClientIP ==
    /\ \A l, m \in Logins :
          (lKey[l] # <<>> /\ lKey[m] # <<>> /\ Host(lAddr[l]) = Host(lAddr[m]))
              => lKey[l] = lKey[m]
    /\ \A addr \in RemoteAddrs : HostCount(attempts, Host(addr)) <= limit

(***************************************************************************)
(* The RateLimiter's stored counts, checked under SpecRL.                  *)
(***************************************************************************)
\* C23: in every reachable state the stored count of every key present in
\* the attempts map is at most `limit`.
C23_CountAtMostLimit == \A k \in DOMAIN attempts : attempts[k] <= limit

(***************************************************************************)
(* The registry and closed connections, checked under Spec.                *)
(***************************************************************************)
\* C27: no closed connection is in the registry. Each registry member has
\* not been closed by the server; a step that closes a connection finds it
\* out of every subscriber set; a connection that was closed is not
\* registered afterwards.
C27_NoClosedConnRegistered ==
    /\ [](\A c \in Registered(connections) : connState[c] # "closed")
    /\ [][\A c \in Conns :
            /\ (connState[c] # "closed" /\ connState'[c] = "closed")
                  => c \notin Registered(connections')
            /\ (connState[c] = "closed" /\ c \notin Registered(connections))
                  => c \notin Registered(connections')]_vars

\* A Broadcast has pruned and closed one subscriber of a board while another
\* subscriber of the same board is registered and open.
C27_Witness ==
    \E c, d \in Conns :
        /\ c # d
        /\ wsBoard[c] = wsBoard[d]
        /\ c \in pruned
        /\ connState[c] = "closed"
        /\ d \in Registered(connections)
        /\ connState[d] = "open"

(***************************************************************************)
(* Liveness of the sessions and of the Hub, under SpecLive and SpecLiveW.  *)
(***************************************************************************)
\* The read of registered connection c fails, or its next probe write will.
ReadFails(c) == c \in Registered(connections) /\ wsPc[c] = "read" /\ ~Usable(c)

TornDown(c) == c \notin Registered(connections) /\ connState[c] = "closed"

\* C24: once the read of a registered connection fails, or its keep-alive
\* probe write fails, the connection is eventually absent from the registry
\* and closed, and stays so: it is never registered again.
C24_TeardownEventually == \A c \in Conns : ReadFails(c) ~> []TornDown(c)

\* C28: both loops of a session end together. Once the read loop has ended
\* and closed the connection the keep-alive loop ends too, and once the
\* keep-alive loop has ended and closed the connection the read loop, and
\* with it HandleWebSocket, returns.
C28_LoopsEndTogether ==
    \A c \in Conns :
        /\ (wsPc[c] = "done" /\ kaPc[c] # "off") ~> (kaPc[c] = "done")
        /\ (kaPc[c] = "done") ~> (wsPc[c] = "done")

\* A Broadcast, a register or an unregister was started and waits for the
\* mutex or holds it.
HubCallStarted(c) ==
    \/ wsPc[c] = "register"
    \/ wsPc[c] = "read" /\ ~Usable(c)
    \/ kaPc[c] = "tick" /\ ~Usable(c)

HubCallEnded(c) ==
    /\ wsPc[c] # "register"
    /\ ~(wsPc[c] = "read" /\ ~Usable(c))
    /\ ~(kaPc[c] = "tick" /\ ~Usable(c))

\* C29: the Hub does not deadlock, provided every write on a connection
\* returns. Every Broadcast that took the mutex releases it, and every
\* register and every unregister of a loop's teardown that was started gets
\* the mutex and completes.
C29_HubCallsComplete ==
    /\ (hubMutex # NoHolder) ~> (hubMutex = NoHolder)
    /\ \A c \in Conns : HubCallStarted(c) ~> HubCallEnded(c)

\* A Broadcast holds the mutex in a write while one connection waits to be
\* registered and a loop of another waits to unregister it.
C29_Witness ==
    /\ bPc = "write"
    /\ hubMutex = Broadcaster
    /\ \E c, d \in Conns :
          /\ wsPc[c] = "register"
          /\ wsPc[d] = "read" /\ ~Usable(d)

(***************************************************************************)
(* The two mutexes, checked under SpecLocks.                               *)
(***************************************************************************)
\* C25: the locks are independent. No goroutine holds the RateLimiter's
\* mutex and the Hub's mutex at the same time, and every repository call is
\* made by a goroutine that holds neither.
C25_LockIndependence ==
    /\ ~(rlMutex # NoHolder /\ rlMutex = hubMutex)
    /\ atStore = {}

\* One session is inside register with the Hub's mutex, another inside Allow
\* with the limiter's, and a task handler that has made its repository calls
\* waits to broadcast.
C25_Witness ==
    \E c, d \in Conns, r \in Reqs :
        /\ wsPc[c] = "registering" /\ hubMutex = SessionHolder(c)
        /\ wsPc[d] = "allow" /\ rlMutex = SessionHolder(d)
        /\ hPc[r] = "broadcast"

(***************************************************************************)
(* The status of stored tasks, checked under SpecHTTP.                     *)
(***************************************************************************)
TaskStatuses == {"todo", "in-progress", "done"}

\* C30: every task the handlers wrote to the store has a status in
\* {"todo", "in-progress", "done"}. createTask stores a normalized status,
\* "todo" for an empty or unknown one; updateTaskByID answers an unknown
\* status with a client error, writes nothing (a title sent along
\* included) and sends no Broadcast.
C30_StoredStatusNormalized ==
    /\ [](\A id \in DOMAIN tasks : tasks[id].status \in TaskStatuses)
    /\ [](\A r \in Reqs :
            /\ hPc[r] \in {"create", "update"} => hTask[r].status \in TaskStatuses
            /\ hBadStatus[r] =>
                  /\ hPc[r] = "done"
                  /\ hStatus[r] = "400"
                  /\ ~hCommit[r]
                  /\ hSent[r] = <<>>)
    /\ [][\A r \in Reqs : (~hBadStatus[r] /\ hBadStatus'[r]) => tasks' = tasks]_vars

\* A task was created and stored, and an update of it whose body had an
\* unknown status was answered 400.
C30_Witness ==
    \E r, q \in Reqs :
        /\ hOp[r] = "create" /\ hCommit[r]
        /\ hTask[r].id \in DOMAIN tasks
        /\ hOp[q] = "update" /\ hBadStatus[q] /\ hStatus[q] = "400"
        /\ hBoard[q] = hTask[r].board
====
